---- MODULE Spec2Model ----
(***************************************************************************)
(* Event-watch engine of the Arkiv SDK: the blocking EventFilter           *)
(* (arkiv/events.py, one worker thread per start) and the cooperative      *)
(* AsyncEventFilter (arkiv/events_async.py, one asyncio task per start),   *)
(* driven by one caller and polling a log filter held by the node.         *)
(* ClientSpec adds the client module with its registry of filters          *)
(* (arkiv/module.py, arkiv/module_async.py); QuerySpec is the paginating   *)
(* QueryIterator (arkiv/query.py); CodecSpec applies the pure functions    *)
(* of the transaction codec and of the receipt decoder (arkiv/utils.py,    *)
(* arkiv/types.py) to arguments drawn from bounded sets.                   *)
(***************************************************************************)
EXTENDS Integers, Sequences, FiniteSets, TLC

\* ------------------------------------------------------------------ bounds
\* Logs the chain emits during one behaviour.
MaxLogs == 2
\* Calls of start() that get as far as creating a log filter.
MaxStarts == 2

\* Python's None, for the references _filter, _thread and _task.
None == 0

VARIABLES
  variant,      \* "blocking" (EventFilter) or "coop" (AsyncEventFilter)
  event_type,   \* self.event_type
  from_block,   \* self.from_block
  chain,        \* the logs emitted so far; log n is in block n
  starts,       \* log filters (and workers) created so far
  cursors,      \* per log filter of the node: the logs already handed out
  running,      \* self._running
  filter,       \* self._filter: None or the id of a log filter
  worker,       \* self._thread / self._task: None or the id of a worker
  workers,      \* per worker: where its _poll_loop stands
  caller,       \* the caller: its position inside start/stop/uninstall,
                \* or idle after the call op has returned
  uninstalled,  \* whether uninstall() has been called
  calls,        \* the invocations of the user callback, in order
  polls,        \* round trips that returned at least one log
  filters,      \* the filters the client's watch calls have constructed
  active_filters, \* ArkivModuleBase._active_filters: filters, by number
  client,       \* the caller of the client: idle after op, or in cleanup
  dataset,      \* what the node holds for the query, and the page limit
  iterator,     \* the fields of a QueryIterator
  drain,        \* what the calls of __next__ have fetched and returned
  coroutines,   \* the coroutines awaiting start() or stop() of one filter
  given,        \* the arguments handed to a function of the codec
  done          \* what the functions applied to them returned or raised

vars == <<variant, event_type, from_block, chain, starts, cursors, running,
          filter, worker, workers, caller, uninstalled, calls, polls,
          filters, active_filters, client, dataset, iterator, drain,
          coroutines, given, done>>

\* The state of a query iterator, which no step of a filter or of the
\* client's registry touches.
queryVars == <<dataset, iterator, drain>>

\* The state of the client module, which no step of a single filter touches.
moduleVars == <<filters, active_filters, client>>

\* The arguments and results of the codec functions (arkiv/utils.py,
\* arkiv/types.py), which are pure: no step of a filter, of the client or of
\* an iterator touches them.
codecVars == <<given, done>>

\* What the steps of the single filter and of its one caller leave alone.
elsewhere == <<moduleVars, queryVars, codecVars, coroutines>>

\* No call of a codec function is under way.
NoCall == [fn |-> "none"]

\* _current_result before the first fetch: None, written as a page of no
\* block so that it compares with pages.
NoResult == [entities |-> <<>>, block_number |-> None, cursor |-> None]

\* QueryIterator.__init__
NewIterator ==
  [current_result |-> NoResult, current_index |-> 0, exhausted |-> FALSE]

\* --------------------------------------------------------------- contract
CREATED_EVENT == "ArkivEntityCreated"
UPDATED_EVENT == "ArkivEntityUpdated"
EXPIRED_EVENT == "ArkivEntityExpired"
DELETED_EVENT == "ArkivEntityDeleted"
EXTENDED_EVENT == "ArkivEntityBTLExtended"
OWNER_CHANGED_EVENT == "ArkivEntityOwnerChanged"
CREATED_EVENT_LEGACY == "GolemBaseStorageEntityCreated"
UPDATED_EVENT_LEGACY == "GolemBaseStorageEntityUpdated"
EXTENDED_EVENT_LEGACY == "GolemBaseStorageEntityBTLExtended"
DELETED_EVENT_LEGACY == "GolemBaseStorageEntityDeleted"

EVENTS ==
  [k \in {"created_legacy", "updated_legacy", "extended_legacy",
          "deleted_legacy", "created", "updated", "extended", "deleted",
          "expired", "owner_changed"} |->
     CASE k = "created_legacy" -> CREATED_EVENT_LEGACY
       [] k = "updated_legacy" -> UPDATED_EVENT_LEGACY
       [] k = "extended_legacy" -> EXTENDED_EVENT_LEGACY
       [] k = "deleted_legacy" -> DELETED_EVENT_LEGACY
       [] k = "created" -> CREATED_EVENT
       [] k = "updated" -> UPDATED_EVENT
       [] k = "extended" -> EXTENDED_EVENT
       [] k = "deleted" -> DELETED_EVENT
       [] k = "expired" -> EXPIRED_EVENT
       [] OTHER -> OWNER_CHANGED_EVENT]

\* The names of the inputs EVENTS_ABI declares for an event.
AbiInputs(name) ==
  CASE name \in {CREATED_EVENT_LEGACY, UPDATED_EVENT_LEGACY} ->
         {"entityKey", "expirationBlock"}
    [] name = DELETED_EVENT_LEGACY -> {"entityKey"}
    [] name = EXTENDED_EVENT_LEGACY ->
         {"entityKey", "oldExpirationBlock", "newExpirationBlock"}
    [] name = CREATED_EVENT ->
         {"entityKey", "ownerAddress", "expirationBlock", "cost"}
    [] name = UPDATED_EVENT ->
         {"entityKey", "ownerAddress", "oldExpirationBlock",
          "newExpirationBlock", "cost"}
    [] name = DELETED_EVENT -> {"entityKey", "ownerAddress"}
    [] name = EXTENDED_EVENT -> {"entityKey", "ownerAddress"}
    [] name = EXPIRED_EVENT ->
         {"entityKey", "ownerAddress", "oldExpirationBlock",
          "newExpirationBlock", "cost"}
    [] name = OWNER_CHANGED_EVENT ->
         {"entityKey", "oldOwnerAddress", "newOwnerAddress"}
    [] OTHER -> {}

\* The address of the storage contract the filters watch.
STORAGE_ADDRESS == "0x0000000000000000000000000000000060138453"

\* ------------------------------------------------------------------ types
\* The fields of the event dataclasses: the keyword arguments their
\* constructors require (no field has a default).
DataclassFields(cls) ==
  CASE cls = "CreateEvent" ->
         {"entity_key", "owner_address", "expiration_block", "cost"}
    [] cls = "UpdateEvent" ->
         {"entity_key", "owner_address", "old_expiration_block",
          "new_expiration_block", "cost"}
    [] cls = "ExpiryEvent" -> {"entity_key", "owner_address"}
    [] cls = "DeleteEvent" -> {"entity_key", "owner_address"}
    [] cls = "ExtendEvent" ->
         {"entity_key", "owner_address", "old_expiration_block",
          "new_expiration_block", "cost"}
    [] cls = "ChangeOwnerEvent" ->
         {"entity_key", "old_owner_address", "new_owner_address"}
    [] OTHER -> {}

\* A dataclass constructor called with the keyword arguments kwargs: a
\* missing or an unexpected keyword raises TypeError.
Construct(cls, kwargs) ==
  IF kwargs = DataclassFields(cls) THEN "ok" ELSE "raise"

\* ----------------------------------------------------------------- decode
\* What processing one polled log comes to: "call" (the user callback is
\* invoked with an event of class cls and tx_hash), "raise" (an exception
\* before the callback, caught and logged) or "skip" (nothing is invoked).
Outcome(status, cls, tx_hash) ==
  [status |-> status, cls |-> cls, tx_hash |-> tx_hash]

\* EventFilter._extract_tx_hash: the log's transaction hash, 0x-prefixed.
\* A hash is modelled by the number of the transaction that emitted the log.
ExtractTxHash(log) == log.tx

\* EventFilter._process_event up to the call of _trigger_callback.  Reading
\* event_data["args"][f] raises KeyError when the decoded log has no input
\* f; the event constructors raise TypeError on wrong keywords.
ProcessEvent(etype, log) ==
  LET args == AbiInputs(log.event)
      tx_hash == ExtractTxHash(log)
      Build(reads, cls, kwargs) ==
        IF reads \subseteq args /\ Construct(cls, kwargs) = "ok"
          THEN Outcome("call", cls, tx_hash)
          ELSE Outcome("raise", cls, tx_hash)
  IN  IF "entityKey" \notin args THEN Outcome("raise", "None", None)
      ELSE CASE etype = "created" ->
                  Build({"expirationBlock"}, "CreateEvent",
                        {"entity_key", "expiration_block"})
             [] etype = "updated" ->
                  Build({"expirationBlock"}, "UpdateEvent",
                        {"entity_key", "expiration_block"})
             [] etype = "extended" ->
                  Build({"oldExpirationBlock", "newExpirationBlock"},
                        "ExtendEvent",
                        {"entity_key", "old_expiration_block",
                         "new_expiration_block"})
             [] etype = "deleted" ->
                  Build({}, "DeleteEvent", {"entity_key"})
             [] OTHER -> Outcome("skip", "None", tx_hash)

\* utils.to_event: the typed event of a log, None for a legacy or an unknown
\* event name; KeyError when an argument it reads is not among the decoded
\* inputs of the log.
ToEvent(log) ==
  LET args == AbiInputs(log.event)
      name == log.event
      Build(reads, cls) ==
        IF reads \subseteq args /\ Construct(cls, DataclassFields(cls)) = "ok"
          THEN [status |-> "ok", cls |-> cls]
          ELSE [status |-> "raise", cls |-> cls]
  IN  IF "entityKey" \notin args THEN [status |-> "raise", cls |-> "None"]
      ELSE CASE name = CREATED_EVENT ->
                  Build({"ownerAddress", "expirationBlock", "cost"},
                        "CreateEvent")
             [] name = UPDATED_EVENT ->
                  Build({"ownerAddress", "oldExpirationBlock",
                         "newExpirationBlock", "cost"}, "UpdateEvent")
             [] name = EXPIRED_EVENT -> Build({"ownerAddress"}, "ExpiryEvent")
             [] name = DELETED_EVENT -> Build({"ownerAddress"}, "DeleteEvent")
             [] name = EXTENDED_EVENT ->
                  Build({"ownerAddress", "oldExpirationBlock",
                         "newExpirationBlock", "cost"}, "ExtendEvent")
             [] name = OWNER_CHANGED_EVENT ->
                  Build({"oldOwnerAddress", "newOwnerAddress"},
                        "ChangeOwnerEvent")
             [] OTHER -> [status |-> "ok", cls |-> "None"]

\* utils.get_tx_hash: the hash of the transaction that emitted the log.
GetTxHash(log) == log.tx

\* AsyncEventFilter._process_log up to the await of the callback: a log of
\* another contract is skipped, and whatever to_event returns (None too) is
\* handed to the callback.
ProcessLog(log) ==
  IF log.address # STORAGE_ADDRESS THEN Outcome("skip", "None", None)
  ELSE LET ev == ToEvent(log)
       IN  IF ev.status = "raise" THEN Outcome("raise", ev.cls, None)
           ELSE Outcome("call", ev.cls, GetTxHash(log))

\* The per-log path of the filter at hand.
Process(log) ==
  IF variant = "blocking" THEN ProcessEvent(event_type, log)
                          ELSE ProcessLog(log)

\* ------------------------------------------------------------ the node
Variants == {"blocking", "coop"}
\* The event types of the filters watched here: one whose logs the
\* cooperative filter decodes, one whose logs it cannot decode, and one
\* whose logs to_event decodes to None.
EventTypes == {"created", "extended", "created_legacy"}
\* from_block: "latest", or the height of a block.
FromBlocks == {[tag |-> "latest", height |-> 0], [tag |-> "height", height |-> 1]}

\* The logs the storage contract may emit next: of the watched event, or of
\* another one.
OtherEvent(name) == IF name = CREATED_EVENT THEN UPDATED_EVENT ELSE CREATED_EVENT
LogMenu ==
  LET own == EVENTS[event_type]
  IN  {[event |-> own, address |-> STORAGE_ADDRESS],
       [event |-> OtherEvent(own), address |-> STORAGE_ADDRESS]}

\* A log filter that hands out the logs from the first block on, whatever
\* from_block says.
StartCursorFromGenesis(fb) == 0

\* contract_event.create_filter(from_block=..): the new log filter hands out
\* the logs from block from_block on, or those emitted after its creation.
StartCursor(fb) == IF fb.tag = "latest" THEN Len(chain) ELSE fb.height - 1

\* What a log filter created for the watched event of the contract matches.
Matches(log) == log.event = EVENTS[event_type] /\ log.address = STORAGE_ADDRESS

\* LogFilter.get_new_entries: the matching logs emitted since the last poll
\* of log filter f, in chain order.
NewEntries(f) ==
  LET from == cursors[f] + 1
  IN  SelectSeq(SubSeq(chain, from, Len(chain)), Matches)

\* ------------------------------------------------------------ the workers
Workers == 1..MaxStarts

\* A worker that has not been created yet.
Unborn ==
  [pc |-> "unborn", flt |-> None, got |-> <<>>, rest |-> <<>>, cancel |-> FALSE, poll |-> 0, call |-> 0]

Alive(w) == workers[w].pc \notin {"unborn", "done"}

\* The entry of calls for the invocation of the callback on the head of rest.
CallEntry(wr) ==
  LET o == Process(Head(wr.rest))
  IN  [cls |-> o.cls, tx_hash |-> o.tx_hash, poll |-> wr.poll,
       idx |-> Len(wr.got) - Len(wr.rest) + 1, outcome |-> "pending"]

RECURSIVE DropSkipped(_)
\* The logs left once the leading ones that invoke no callback are done with.
DropSkipped(logs) ==
  IF logs = <<>> \/ Process(Head(logs)).status = "call" THEN logs
  ELSE DropSkipped(Tail(logs))

\* A loop that takes the last log of what is left first.
RunLogsLastFirst(w, wr, logs, cs) ==
  LET left == DropSkipped(logs)
      n == Len(left)
      turned == [k \in 1..n |-> left[n + 1 - k]]
  IN  IF left = <<>>
        THEN /\ workers' = [workers EXCEPT ![w] = [wr EXCEPT !.pc = "sleep", !.rest = <<>>]]
             /\ calls' = cs
        ELSE LET nr == [wr EXCEPT !.pc = "callback", !.rest = turned, !.call = Len(cs) + 1]
             IN  /\ workers' = [workers EXCEPT ![w] = nr]
                 /\ calls' = Append(cs, CallEntry(nr))

\* The cooperative task runs without suspension from one log to the await of
\* the next callback, or to the sleep after the last log; cs are the calls
\* made so far.
RunLogs(w, wr, logs, cs) ==
  LET left == DropSkipped(logs)
  IN  IF left = <<>>
        THEN /\ workers' = [workers EXCEPT ![w] = [wr EXCEPT !.pc = "sleep", !.rest = <<>>]]
             /\ calls' = cs
        ELSE LET nr == [wr EXCEPT !.pc = "callback", !.rest = left, !.call = Len(cs) + 1]
             IN  /\ workers' = [workers EXCEPT ![w] = nr]
                 /\ calls' = Append(cs, CallEntry(nr))

\* The blocking worker goes on to the next log of its batch, or to sleep.
NextLog(w, wr, logs) ==
  workers' = [workers EXCEPT ![w] =
     [wr EXCEPT !.rest = logs, !.pc = IF logs = <<>> THEN "sleep" ELSE "dispatch"]]

\* ------------------------------------------------------------------- Init
\* The caller after op has returned ("start_raised": start() raised).
Returned(op) == [pc |-> "idle", op |-> op]

\* Coroutines that await start() and stop() of one cooperative filter at
\* the same time, as under asyncio.gather.
MaxCoroutines == 2

Coroutines == 1..MaxCoroutines

\* The coroutine after op has returned; task is the task a stop() awaits.
Resumed(op) == [pc |-> "idle", op |-> op, task |-> None]

NoCoroutines == [c \in Coroutines |-> Resumed("init")]

\* A filter constructed without auto_start, on a chain without logs.
Init ==
  /\ variant \in Variants
  /\ event_type \in EventTypes
  /\ from_block \in FromBlocks
  /\ chain = <<>>
  /\ starts = 0
  /\ cursors = [f \in Workers |-> 0]
  /\ running = FALSE
  /\ filter = None
  /\ worker = None
  /\ workers = [w \in Workers |-> Unborn]
  /\ caller = Returned("init")
  /\ uninstalled = FALSE
  /\ calls = <<>>
  /\ polls = 0
  /\ filters = <<>>
  /\ active_filters = <<>>
  /\ client = [pc |-> "idle", op |-> "init", k |-> 0]
  /\ dataset = [n |-> 0, limit |-> 1, block |-> 1]
  /\ iterator = NewIterator
  /\ drain = [yielded |-> <<>>, fetches |-> <<>>, last |-> "none",
              honest |-> TRUE, stops |-> 0]
  /\ coroutines = NoCoroutines
  /\ given = NoCall
  /\ done = <<>>

config == <<variant, event_type, from_block>>

\* ---------------------------------------------------------------- the chain
\* A transaction emits a log; live records whether the filter was running
\* at that moment.
EmitLog ==
  /\ Len(chain) < MaxLogs
  /\ \E l \in LogMenu :
       chain' = Append(chain, [event |-> l.event, address |-> l.address,
                               tx |-> Len(chain) + 1, live |-> running])
  /\ UNCHANGED <<config, elsewhere, starts, cursors, running, filter, worker, workers,
                 caller, uninstalled, calls, polls>>

\* ---------------------------------------------------------------- start()
\* A start() that does not look at the flag.
StartCallWhateverTheFlag ==
  /\ caller.pc = "idle"
  /\ starts < MaxStarts
  /\ caller' = IF event_type \notin DOMAIN EVENTS
                 THEN Returned("start_raised")
                 ELSE [pc |-> "creating", op |-> "start"]
  /\ UNCHANGED <<config, elsewhere, chain, starts, cursors, running, filter, worker,
                 workers, uninstalled, calls, polls>>

\* start() up to the creation of the log filter: a running filter only warns,
\* an event type without an entry in EVENTS raises NotImplementedError.
StartCall ==
  /\ caller.pc = "idle"
  /\ running \/ starts < MaxStarts
  /\ caller' = IF running THEN Returned("start")
                ELSE IF event_type \notin DOMAIN EVENTS
                       THEN Returned("start_raised")
                       ELSE [pc |-> "creating", op |-> "start"]
  /\ UNCHANGED <<config, elsewhere, chain, starts, cursors, running, filter, worker,
                 workers, uninstalled, calls, polls>>

\* start() that creates the filter and the worker and leaves the flag alone.
StartReturnNoFlag ==
  /\ caller.pc = "creating"
  /\ LET id == starts + 1
     IN  /\ starts' = id
         /\ cursors' = [cursors EXCEPT ![id] = StartCursor(from_block)]
         /\ filter' = id
         /\ worker' = id
         /\ workers' = [workers EXCEPT ![id] = [Unborn EXCEPT !.pc = "top"]]
  /\ caller' = Returned("start")
  /\ UNCHANGED <<config, elsewhere, chain, running, uninstalled, calls, polls>>

\* create_filter returned: the filter is kept, the flag is set and the poll
\* worker (a thread, or a task) is created.
StartReturn ==
  /\ caller.pc = "creating"
  /\ LET id == starts + 1
     IN  /\ starts' = id
         /\ cursors' = [cursors EXCEPT ![id] = StartCursor(from_block)]
         /\ filter' = id
         /\ running' = TRUE
         /\ worker' = id
         /\ workers' = [workers EXCEPT ![id] = [Unborn EXCEPT !.pc = "top"]]
  /\ caller' = Returned("start")
  /\ UNCHANGED <<config, elsewhere, chain, uninstalled, calls, polls>>

\* create_filter raised: the exception leaves start().
StartFail ==
  /\ caller.pc = "creating"
  /\ caller' = Returned("start_raised")
  /\ UNCHANGED <<config, elsewhere, chain, starts, cursors, running, filter, worker,
                 workers, uninstalled, calls, polls>>

\* ----------------------------------------------------------------- stop()
\* stop() after it has cleared the flag, called for op (stop, or uninstall):
\* the blocking filter joins its thread, the cooperative one cancels its
\* task and awaits it.
Halt(op) ==
  IF variant = "blocking"
    THEN /\ workers' = workers
         /\ IF worker # None
              THEN caller' = [pc |-> "join", op |-> op] /\ filter' = filter
              ELSE /\ caller' = Returned(op)
                   /\ filter' = IF op = "uninstall" THEN None ELSE filter
    ELSE IF worker # None /\ workers[worker].pc # "done"
           THEN /\ workers' = [workers EXCEPT ![worker].cancel = TRUE]
                /\ caller' = [pc |-> "join", op |-> op]
                /\ filter' = filter
           ELSE /\ workers' = workers
                /\ caller' = Returned(op)
                /\ filter' = IF op = "uninstall" THEN None ELSE filter

StopCall ==
  /\ caller.pc = "idle"
  /\ IF ~running
       THEN /\ caller' = Returned("stop")
            /\ UNCHANGED <<running, workers, filter>>
       ELSE /\ running' = FALSE
            /\ Halt("stop")
  /\ UNCHANGED <<config, elsewhere, chain, starts, cursors, worker, uninstalled, calls,
                 polls>>

\* stop() that does not await the task it has cancelled.
StopReturnNoWait ==
  /\ caller.pc = "join"
  /\ worker' = None
  /\ filter' = IF caller.op = "uninstall" THEN None ELSE filter
  /\ caller' = Returned(caller.op)
  /\ UNCHANGED <<config, elsewhere, chain, starts, cursors, running, workers,
                 uninstalled, calls, polls>>

\* stop() that joins its thread without a timeout.
StopReturnJoinForever ==
  /\ caller.pc = "join"
  /\ workers[worker].pc = "done"
  /\ worker' = None
  /\ filter' = IF caller.op = "uninstall" THEN None ELSE filter
  /\ caller' = Returned(caller.op)
  /\ UNCHANGED <<config, elsewhere, chain, starts, cursors, running, workers,
                 uninstalled, calls, polls>>

\* The join timed out or the thread has ended; the awaited task has ended.
StopReturn ==
  /\ caller.pc = "join"
  /\ variant = "blocking" \/ workers[worker].pc = "done"
  /\ worker' = None
  /\ filter' = IF caller.op = "uninstall" THEN None ELSE filter
  /\ caller' = Returned(caller.op)
  /\ UNCHANGED <<config, elsewhere, chain, starts, cursors, running, workers,
                 uninstalled, calls, polls>>

\* ------------------------------------------------------------ uninstall()
\* uninstall() that drops the filter reference without stopping first.
UninstallNoStop ==
  /\ caller.pc = "idle"
  /\ filter' = None
  /\ caller' = Returned("uninstall")
  /\ uninstalled' = TRUE
  /\ UNCHANGED <<config, elsewhere, chain, starts, cursors, running, worker, workers,
                 calls, polls>>

\* uninstall(): a running filter is stopped first, then the reference to the
\* log filter is dropped.
UninstallCall ==
  /\ caller.pc = "idle"
  /\ IF running
       THEN /\ running' = FALSE
            /\ Halt("uninstall")
       ELSE /\ filter' = None
            /\ caller' = Returned("uninstall")
            /\ UNCHANGED <<running, workers>>
  /\ uninstalled' = TRUE
  /\ UNCHANGED <<config, elsewhere, chain, starts, cursors, worker, calls, polls>>

\* ------------------------------------------------- the blocking _poll_loop
callerVars == <<caller, running, filter, worker, starts, uninstalled>>

\* A loop that goes on whatever the flag says.
LoopTopIgnoresFlag(w) ==
  /\ variant = "blocking"
  /\ workers[w].pc \in {"top", "sleep", "errsleep"}
  /\ workers' = [workers EXCEPT ![w] = [@ EXCEPT !.pc = "poll", !.got = <<>>]]
  /\ UNCHANGED <<config, elsewhere, chain, cursors, callerVars, calls, polls>>

\* while self._running: the flag is read at the top of each iteration, when
\* the thread starts and when time.sleep(self._poll_interval) is over, after
\* a poll or after a failure.
LoopTop(w) ==
  /\ variant = "blocking"
  /\ workers[w].pc \in {"top", "sleep", "errsleep"}
  /\ workers' = [workers EXCEPT ![w] =
       [@ EXCEPT !.pc = IF running THEN "poll" ELSE "done", !.got = <<>>]]
  /\ UNCHANGED <<config, elsewhere, chain, cursors, callerVars, calls, polls>>

\* if self._filter: the round trip of get_new_entries starts on the filter
\* the reference names now; without a filter the iteration only sleeps.
PollBegin(w) ==
  /\ variant = "blocking"
  /\ workers[w].pc = "poll"
  /\ workers' = [workers EXCEPT ![w] =
       IF filter # None THEN [@ EXCEPT !.pc = "roundtrip", !.flt = filter]
                        ELSE [@ EXCEPT !.pc = "sleep"]]
  /\ UNCHANGED <<config, elsewhere, chain, cursors, callerVars, calls, polls>>

\* One entry of the batch goes through _process_event; an exception in it
\* is caught in the for loop.
Dispatch(w) ==
  /\ variant = "blocking"
  /\ workers[w].pc = "dispatch"
  /\ LET wr == workers[w]
     IN  IF Process(Head(wr.rest)).status = "call"
           THEN /\ workers' = [workers EXCEPT ![w] =
                      [wr EXCEPT !.pc = "callback", !.call = Len(calls) + 1]]
                /\ calls' = Append(calls, CallEntry(wr))
           ELSE /\ NextLog(w, wr, Tail(wr.rest))
                /\ calls' = calls
  /\ UNCHANGED <<config, elsewhere, chain, cursors, callerVars, polls>>

\* --------------------------------------------- the cooperative _poll_loop
\* The task is resumed (first, or after a sleep) and runs to its next await:
\* the flag, the filter reference, then the round trip or the sleep.
TaskStep(w) ==
  /\ variant = "coop"
  /\ workers[w].pc \in {"top", "sleep", "errsleep"}
  /\ ~workers[w].cancel
  /\ workers' = [workers EXCEPT ![w] =
       IF ~running THEN [@ EXCEPT !.pc = "done", !.got = <<>>]
       ELSE IF filter # None
              THEN [@ EXCEPT !.pc = "roundtrip", !.flt = filter, !.got = <<>>]
              ELSE [@ EXCEPT !.pc = "sleep", !.got = <<>>]]
  /\ UNCHANGED <<config, elsewhere, chain, cursors, callerVars, calls, polls>>

\* task.cancel(): CancelledError is raised at the await the task is
\* suspended in (or before its first step); nothing in the loop catches it
\* without leaving the loop, and the task ends.
TaskCancelled(w) ==
  /\ variant = "coop"
  /\ workers[w].cancel
  /\ Alive(w)
  /\ workers' = [workers EXCEPT ![w] =
       [@ EXCEPT !.pc = "done", !.rest = <<>>, !.flt = None, !.cancel = FALSE]]
  /\ calls' = IF workers[w].pc = "callback"
                THEN [calls EXCEPT ![workers[w].call].outcome = "cancelled"]
                ELSE calls
  /\ UNCHANGED <<config, elsewhere, chain, cursors, callerVars, polls>>

\* ------------------------------------------------------ both _poll_loops
\* Neither a thread nor a task takes a step of its own once cancelled.
CanRun(w) == ~workers[w].cancel

\* get_new_entries returned: the node hands out the new matching logs and
\* moves the cursor of the log filter.
PollReturn(w) ==
  /\ workers[w].pc = "roundtrip"
  /\ CanRun(w)
  /\ LET f == workers[w].flt
         entries == NewEntries(f)
         wr == [workers[w] EXCEPT !.flt = None, !.got = entries,
                  !.poll = IF entries = <<>> THEN @ ELSE polls + 1]
     IN  /\ cursors' = [cursors EXCEPT ![f] = Len(chain)]
         /\ polls' = IF entries = <<>> THEN polls ELSE polls + 1
         /\ IF variant = "blocking"
              THEN NextLog(w, wr, entries) /\ calls' = calls
              ELSE RunLogs(w, wr, entries, calls)
  /\ UNCHANGED <<config, elsewhere, chain, callerVars>>

\* get_new_entries raised and nothing in the loop catches it: the worker ends.
PollFailEscapes(w) ==
  /\ workers[w].pc = "roundtrip"
  /\ CanRun(w)
  /\ workers' = [workers EXCEPT ![w] = [@ EXCEPT !.pc = "done", !.flt = None]]
  /\ UNCHANGED <<config, elsewhere, chain, cursors, callerVars, calls, polls>>

\* A loop whose except clause gives up and clears the flag.
PollFailClearsFlag(w) ==
  /\ workers[w].pc = "roundtrip"
  /\ CanRun(w)
  /\ workers' = [workers EXCEPT ![w] =
       [@ EXCEPT !.pc = "errsleep", !.flt = None]]
  /\ running' = FALSE
  /\ UNCHANGED <<config, elsewhere, chain, cursors, caller, filter, worker,
                 starts, uninstalled, calls, polls>>

\* get_new_entries raised: the loop's except clause logs and sleeps.
PollFail(w) ==
  /\ workers[w].pc = "roundtrip"
  /\ CanRun(w)
  /\ workers' = [workers EXCEPT ![w] =
       [@ EXCEPT !.pc = "errsleep", !.flt = None]]
  /\ UNCHANGED <<config, elsewhere, chain, cursors, callerVars, calls, polls>>

\* The callback is over, by returning ("ok") or by raising ("raised"): the
\* loop goes on with the next log.
CallbackDone(w, outcome) ==
  /\ workers[w].pc = "callback"
  /\ CanRun(w)
  /\ LET wr == workers[w]
         cs == [calls EXCEPT ![wr.call].outcome = outcome]
     IN  IF variant = "blocking"
           THEN NextLog(w, wr, Tail(wr.rest)) /\ calls' = cs
           ELSE RunLogs(w, wr, Tail(wr.rest), cs)
  /\ UNCHANGED <<config, elsewhere, chain, cursors, callerVars, polls>>

CallbackReturn(w) == CallbackDone(w, "ok")

\* The exception of the callback leaves the poll loop and ends the worker.
CallbackRaiseEscapes(w) ==
  /\ workers[w].pc = "callback"
  /\ CanRun(w)
  /\ workers' = [workers EXCEPT ![w] = [@ EXCEPT !.pc = "done", !.rest = <<>>]]
  /\ calls' = [calls EXCEPT ![workers[w].call].outcome = "raised"]
  /\ UNCHANGED <<config, elsewhere, chain, cursors, callerVars, polls>>

\* The exception of the callback is caught (in _trigger_callback, in
\* _process_log) and logged.
CallbackRaise(w) == CallbackDone(w, "raised")

\* ------------------------------------------------------------------- Next
Next ==
  \/ EmitLog
  \/ StartCall
  \/ StartReturn
  \/ StartFail
  \/ StopCall
  \/ StopReturn
  \/ UninstallCall
  \/ \E w \in Workers : LoopTop(w)
  \/ \E w \in Workers : PollBegin(w)
  \/ \E w \in Workers : Dispatch(w)
  \/ \E w \in Workers : TaskStep(w)
  \/ \E w \in Workers : TaskCancelled(w)
  \/ \E w \in Workers : PollReturn(w)
  \/ \E w \in Workers : PollFail(w)
  \/ \E w \in Workers : CallbackReturn(w)
  \/ \E w \in Workers : CallbackRaise(w)

Spec == Init /\ [][Next]_vars

\* The join of stop() ends when its timeout expires, and the event loop
\* runs a cancelled task.  Nothing is assumed of the node or the callback.
FairSpec ==
  /\ Spec
  /\ WF_vars(StopReturn)
  /\ \A w \in Workers : WF_vars(TaskCancelled(w))

\* ------------------------------------- start() and stop() awaited together
\* The cooperative filter with several coroutines awaiting its start() and
\* stop(): a coroutine runs alone from one await to the next, and the
\* others run while it is suspended in create_filter or in the await of
\* the task it has cancelled.
ConcurrentInit ==
  /\ Init
  /\ variant = "coop"

\* The coroutines suspended in the create_filter of their start().
Creating == {c \in Coroutines : coroutines[c].pc = "creating"}

\* await start() up to the await of create_filter: a running filter only
\* warns, _get_contract_event_name raises for an unknown event type.
AwaitStart(c) ==
  /\ coroutines[c].pc = "idle"
  /\ running \/ starts + Cardinality(Creating) < MaxStarts
  /\ coroutines' = [coroutines EXCEPT ![c] =
       IF running THEN Resumed("start")
       ELSE IF event_type \notin DOMAIN EVENTS THEN Resumed("start_raised")
       ELSE [pc |-> "creating", op |-> "start", task |-> None]]
  /\ UNCHANGED <<config, moduleVars, queryVars, codecVars, chain, starts, cursors,
                 running, filter, worker, workers, caller, uninstalled, calls,
                 polls>>

\* create_filter returned: the coroutine keeps the filter, sets the flag and
\* creates the poll task, whatever the other coroutines did meanwhile.
AwaitStartReturn(c) ==
  /\ coroutines[c].pc = "creating"
  /\ LET id == starts + 1
     IN  /\ starts' = id
         /\ cursors' = [cursors EXCEPT ![id] = StartCursor(from_block)]
         /\ filter' = id
         /\ running' = TRUE
         /\ worker' = id
         /\ workers' = [workers EXCEPT ![id] = [Unborn EXCEPT !.pc = "top"]]
  /\ coroutines' = [coroutines EXCEPT ![c] = Resumed("start")]
  /\ UNCHANGED <<config, moduleVars, queryVars, codecVars, chain, caller,
                 uninstalled, calls, polls>>

\* create_filter raised: the exception leaves start().
AwaitStartFail(c) ==
  /\ coroutines[c].pc = "creating"
  /\ coroutines' = [coroutines EXCEPT ![c] = Resumed("start_raised")]
  /\ UNCHANGED <<config, moduleVars, queryVars, codecVars, chain, starts, cursors,
                 running, filter, worker, workers, caller, uninstalled, calls,
                 polls>>

\* await stop() up to the await of the task: the flag is cleared, and a
\* task that has not ended is cancelled and awaited.
AwaitStop(c) ==
  /\ coroutines[c].pc = "idle"
  /\ IF ~running
       THEN /\ coroutines' = [coroutines EXCEPT ![c] = Resumed("stop")]
            /\ UNCHANGED <<running, workers>>
       ELSE /\ running' = FALSE
            /\ IF worker # None /\ workers[worker].pc # "done"
                 THEN /\ workers' = [workers EXCEPT ![worker].cancel = TRUE]
                      /\ coroutines' = [coroutines EXCEPT ![c] =
                           [pc |-> "join", op |-> "stop", task |-> worker]]
                 ELSE /\ workers' = workers
                      /\ coroutines' = [coroutines EXCEPT ![c] = Resumed("stop")]
  /\ UNCHANGED <<config, moduleVars, queryVars, codecVars, chain, starts, cursors,
                 filter, worker, caller, uninstalled, calls, polls>>

\* The awaited task has ended: self._task = None, whichever task the
\* reference names by now.
AwaitStopReturn(c) ==
  /\ coroutines[c].pc = "join"
  /\ workers[coroutines[c].task].pc = "done"
  /\ worker' = None
  /\ coroutines' = [coroutines EXCEPT ![c] = Resumed("stop")]
  /\ UNCHANGED <<config, moduleVars, queryVars, codecVars, chain, starts, cursors,
                 running, filter, workers, caller, uninstalled, calls, polls>>

ConcurrentNext ==
  \/ EmitLog
  \/ \E c \in Coroutines : AwaitStart(c)
  \/ \E c \in Coroutines : AwaitStartReturn(c)
  \/ \E c \in Coroutines : AwaitStartFail(c)
  \/ \E c \in Coroutines : AwaitStop(c)
  \/ \E c \in Coroutines : AwaitStopReturn(c)
  \/ \E w \in Workers : TaskStep(w)
  \/ \E w \in Workers : TaskCancelled(w)
  \/ \E w \in Workers : PollReturn(w)
  \/ \E w \in Workers : PollFail(w)
  \/ \E w \in Workers : CallbackReturn(w)
  \/ \E w \in Workers : CallbackRaise(w)

ConcurrentSpec == ConcurrentInit /\ [][ConcurrentNext]_vars

\* ------------------------------------------------------------- the client
\* The client module (ArkivModule, AsyncArkivModule) with the filters its
\* watch calls construct.  One poll of a filter, from get_new_entries to the
\* last callback of the batch, is one step here.

\* Filters one client constructs during one behaviour.
MaxFilters == 2

\* The event types of watch_entity_created and watch_entity_extended.
WatchKinds == {"created", "extended"}

Latest == [tag |-> "latest", height |-> 0]

\* The caller of the client after op has returned.
ClientIdle(op) == [pc |-> "idle", op |-> op, k |-> 0]

\* The logs the storage contract may emit: one per watched kind.
ClientLogMenu ==
  {[event |-> EVENTS[k], address |-> STORAGE_ADDRESS] : k \in WatchKinds}

\* EventFilter(...) / AsyncEventFilter(...) as the constructor leaves it.
NewFilter(kind) ==
  [event_type |-> kind, running |-> FALSE, filter |-> None, cursor |-> 0,
   delivered |-> <<>>, uninstalled |-> FALSE, failed |-> FALSE]

\* start() of a filter record: a running filter is left alone; otherwise a
\* log filter is created at the head of the chain and the flag is set.
Started(f) ==
  IF f.running THEN f
  ELSE [f EXCEPT !.running = TRUE, !.filter = 1, !.cursor = Len(chain)]

\* stop() of a filter record, its worker joined or awaited.
Stopped(f) == [f EXCEPT !.running = FALSE]

\* uninstall() of a filter record; uninstalled records that it has returned.
Uninstalled(f) == [Stopped(f) EXCEPT !.filter = None, !.uninstalled = TRUE]

\* uninstall() of a running filter record whose stop() raises, in the join
\* or in the await of the task: the flag is cleared already, the reference
\* to the log filter is kept; failed records the exception.
UninstallRaised(f) == [Stopped(f) EXCEPT !.failed = TRUE]

\* The per-log path of a filter of the given event type.
ProcessAs(etype, log) ==
  IF variant = "blocking" THEN ProcessEvent(etype, log) ELSE ProcessLog(log)

\* The logs get_new_entries hands to filter record f, in chain order.
ClientEntries(f) ==
  LET Mine(log) == /\ log.event = EVENTS[f.event_type]
                   /\ log.address = STORAGE_ADDRESS
  IN  SelectSeq(SubSeq(chain, f.cursor + 1, Len(chain)), Mine)

RECURSIVE Deliveries(_, _, _)
\* The callback invocations of one batch: one per log that gets as far as
\* the callback, which returns or raises as outcome says.
Deliveries(etype, logs, outcome) ==
  IF logs = <<>> THEN <<>>
  ELSE LET o == ProcessAs(etype, Head(logs))
           rest == Deliveries(etype, Tail(logs), outcome)
       IN  IF o.status = "call"
             THEN <<[cls |-> o.cls, tx_hash |-> o.tx_hash,
                     outcome |-> outcome]>> \o rest
             ELSE rest

\* The steps of the client leave the single filter of Spec alone.
filterVars == <<event_type, from_block, starts, cursors, running, filter,
                worker, workers, caller, uninstalled, calls, polls, coroutines>>

ClientInit ==
  /\ variant \in Variants
  /\ event_type = "created"
  /\ from_block = Latest
  /\ chain = <<>>
  /\ starts = 0
  /\ cursors = [f \in Workers |-> 0]
  /\ running = FALSE
  /\ filter = None
  /\ worker = None
  /\ workers = [w \in Workers |-> Unborn]
  /\ caller = Returned("init")
  /\ uninstalled = FALSE
  /\ calls = <<>>
  /\ polls = 0
  /\ filters = <<>>
  /\ active_filters = <<>>
  /\ client = ClientIdle("init")
  /\ dataset = [n |-> 0, limit |-> 1, block |-> 1]
  /\ iterator = NewIterator
  /\ drain = [yielded |-> <<>>, fetches |-> <<>>, last |-> "none",
              honest |-> TRUE, stops |-> 0]
  /\ coroutines = NoCoroutines
  /\ given = NoCall
  /\ done = <<>>

ClientEmit ==
  /\ Len(chain) < MaxLogs
  /\ \E l \in ClientLogMenu :
       chain' = Append(chain, [event |-> l.event, address |-> l.address,
                               tx |-> Len(chain) + 1, live |-> FALSE])
  /\ UNCHANGED <<variant, codecVars, queryVars, filterVars, moduleVars>>

\* A watch call that tracks the filter before it starts it, and whose
\* start() raises.
WatchFailTracked ==
  /\ client.pc = "idle"
  /\ Len(filters) < MaxFilters
  /\ filters' = Append(filters, NewFilter("created"))
  /\ active_filters' = Append(active_filters, Len(filters) + 1)
  /\ client' = ClientIdle("watch_raised")
  /\ UNCHANGED <<variant, codecVars, queryVars, chain, filterVars>>

\* A watch call that returns the filter without tracking it.
WatchNoAppend(kind, auto_start) ==
  /\ client.pc = "idle"
  /\ Len(filters) < MaxFilters
  /\ LET f == NewFilter(kind)
     IN  filters' = Append(filters, IF auto_start THEN Started(f) ELSE f)
  /\ client' = ClientIdle("watch")
  /\ UNCHANGED <<variant, codecVars, queryVars, chain, filterVars, active_filters>>

\* _watch_entity_event: the filter is constructed, started when auto_start
\* is set, and appended to _active_filters.
Watch(kind, auto_start) ==
  /\ client.pc = "idle"
  /\ Len(filters) < MaxFilters
  /\ LET f == NewFilter(kind)
     IN  filters' = Append(filters, IF auto_start THEN Started(f) ELSE f)
  /\ active_filters' = Append(active_filters, Len(filters) + 1)
  /\ client' = ClientIdle("watch")
  /\ UNCHANGED <<variant, codecVars, queryVars, chain, filterVars>>

\* _watch_entity_event with auto_start whose start() raises in create_filter:
\* the exception leaves the watch call before the append.
WatchFail ==
  /\ client.pc = "idle"
  /\ Len(filters) < MaxFilters
  /\ client' = ClientIdle("watch_raised")
  /\ UNCHANGED <<variant, codecVars, queryVars, chain, filterVars, filters, active_filters>>

\* The user calls start(), stop() or uninstall() on a filter a watch call
\* returned.
FilterStart(i) ==
  /\ client.pc = "idle"
  /\ filters' = [filters EXCEPT ![i] = Started(@)]
  /\ client' = ClientIdle("start")
  /\ UNCHANGED <<variant, codecVars, queryVars, chain, filterVars, active_filters>>

\* start() of a filter that is not running raises, for its event type or in
\* create_filter, before it has assigned anything.
FilterStartFail(i) ==
  /\ client.pc = "idle"
  /\ ~filters[i].running
  /\ client' = ClientIdle("start_raised")
  /\ UNCHANGED <<variant, codecVars, queryVars, chain, filterVars, filters,
                 active_filters>>

FilterStop(i) ==
  /\ client.pc = "idle"
  /\ filters' = [filters EXCEPT ![i] = Stopped(@)]
  /\ client' = ClientIdle("stop")
  /\ UNCHANGED <<variant, codecVars, queryVars, chain, filterVars, active_filters>>

FilterUninstall(i) ==
  /\ client.pc = "idle"
  /\ filters' = [filters EXCEPT ![i] = Uninstalled(@)]
  /\ client' = ClientIdle("uninstall")
  /\ UNCHANGED <<variant, codecVars, queryVars, chain, filterVars, active_filters>>

\* One iteration of the poll loop of filter i: the new entries go through
\* the per-log path and the callback.
FilterPoll(i, outcome) ==
  /\ filters[i].running
  /\ filters[i].filter # None
  /\ LET f == filters[i]
         entries == ClientEntries(f)
     IN  /\ entries # <<>>
         /\ filters' = [filters EXCEPT ![i] =
              [f EXCEPT !.cursor = Len(chain),
                        !.delivered = @ \o Deliveries(f.event_type, entries,
                                                      outcome)]]
  /\ UNCHANGED <<variant, codecVars, queryVars, chain, filterVars, active_filters, client>>

\* cleanup_filters up to its loop: an empty registry returns at once.
CleanupCall ==
  /\ client.pc = "idle"
  /\ client' = IF active_filters = <<>> THEN ClientIdle("cleanup")
               ELSE [pc |-> "cleanup", op |-> "cleanup", k |-> 1]
  /\ UNCHANGED <<variant, codecVars, queryVars, chain, filterVars, filters, active_filters>>

\* A cleanup that forgets the filters without uninstalling them.
CleanupStepClearOnly ==
  /\ client.pc = "cleanup"
  /\ active_filters' = <<>>
  /\ client' = ClientIdle("cleanup")
  /\ UNCHANGED <<variant, codecVars, queryVars, chain, filterVars, filters>>

\* One turn of the loop of cleanup_filters: the next filter of the registry
\* is uninstalled; after the last one the registry is cleared.
CleanupStep ==
  /\ client.pc = "cleanup"
  /\ LET i == active_filters[client.k]
         last == client.k = Len(active_filters)
     IN  /\ filters' = [filters EXCEPT ![i] = Uninstalled(@)]
         /\ active_filters' = IF last THEN <<>> ELSE active_filters
         /\ client' = IF last THEN ClientIdle("cleanup")
                      ELSE [client EXCEPT !.k = @ + 1]
  /\ UNCHANGED <<variant, codecVars, queryVars, chain, filterVars>>

\* A cleanup that lets the exception of an uninstall() leave the loop.
CleanupStepRaiseEscapes ==
  /\ client.pc = "cleanup"
  /\ LET i == active_filters[client.k]
     IN  /\ filters[i].running
         /\ filters' = [filters EXCEPT ![i] = UninstallRaised(@)]
  /\ client' = ClientIdle("cleanup_raised")
  /\ UNCHANGED <<variant, codecVars, queryVars, chain, filterVars, active_filters>>

\* One turn of the loop of cleanup_filters in which uninstall() raises: the
\* except clause logs a warning and the loop goes on.
CleanupStepRaise ==
  /\ client.pc = "cleanup"
  /\ LET i == active_filters[client.k]
         last == client.k = Len(active_filters)
     IN  /\ filters[i].running
         /\ filters' = [filters EXCEPT ![i] = UninstallRaised(@)]
         /\ active_filters' = IF last THEN <<>> ELSE active_filters
         /\ client' = IF last THEN ClientIdle("cleanup")
                      ELSE [client EXCEPT !.k = @ + 1]
  /\ UNCHANGED <<variant, codecVars, queryVars, chain, filterVars>>

ClientNext ==
  \/ ClientEmit
  \/ \E kind \in WatchKinds, auto_start \in BOOLEAN : Watch(kind, auto_start)
  \/ WatchFail
  \/ \E i \in 1..Len(filters) : FilterStart(i)
  \/ \E i \in 1..Len(filters) : FilterStartFail(i)
  \/ \E i \in 1..Len(filters) : FilterStop(i)
  \/ \E i \in 1..Len(filters) : FilterUninstall(i)
  \/ \E i \in 1..Len(filters), outcome \in {"ok", "raised"} :
       FilterPoll(i, outcome)
  \/ CleanupCall
  \/ CleanupStep
  \/ CleanupStepRaise

ClientSpec == ClientInit /\ [][ClientNext]_vars

\* ------------------------------------------------------ the query iterator
\* QueryIterator (arkiv/query.py) draining the pages of one query.  The node
\* holds the entities 1..dataset.n that match; a page is a QueryResult.

\* Entities that match the query.
MaxEntities == 3
\* The largest page limit.
MaxLimit == 2
\* The highest block the node may answer at.
MaxBlock == 2

\* The fields of the dataclass QueryResult.
QueryResultFields == {"entities", "block_number", "cursor"}

QueryResult(entities, block_number, cursor) ==
  [entities |-> entities, block_number |-> block_number, cursor |-> cursor]

\* QueryResult.has_more
has_more(result) == result.cursor # None

\* Reading attribute name of a QueryResult raises AttributeError unless it
\* is one of its fields.
HasAttr(name) == name \in QueryResultFields

Min(a, b) == IF a < b THEN a ELSE b

\* The pages the node may answer with for the entities after offset: up to
\* limit of them, in order, at some block, with a cursor (the offset of the
\* next page, plus one) or without.
ServerPages(offset) ==
  {QueryResult([i \in 1..k |-> offset + i], b,
               IF more THEN offset + k + 1 ELSE None) :
     k \in 0..Min(dataset.limit, dataset.n - offset),
     b \in 1..MaxBlock,
     more \in BOOLEAN}

\* The page of a node that fills its pages, returns a cursor exactly when
\* more entities remain, and answers at the block the query is pinned to.
HonestPage(offset, page) ==
  /\ Len(page.entities) = Min(dataset.limit, dataset.n - offset)
  /\ has_more(page) <=> offset + Len(page.entities) < dataset.n
  /\ page.block_number = dataset.block

\* query_entities returned page for the entities after offset.
Fetched(lg, offset, page) ==
  [lg EXCEPT !.fetches = Append(@, Len(page.entities)),
             !.honest = @ /\ HonestPage(offset, page)]

\* __next__ returns the entity at _current_index.
Yield(it, lg) ==
  [it |-> [it EXCEPT !.current_index = @ + 1],
   lg |-> [lg EXCEPT !.last = "yield",
             !.yielded = Append(@, it.current_result.entities[it.current_index + 1])]]

\* Calls of __next__ that raised StopIteration are counted up to here.
MaxStops == 2

\* __next__ raises exc.
Raise(it, lg, exc) ==
  [it |-> it,
   lg |-> [lg EXCEPT !.last = exc,
             !.stops = IF exc = "StopIteration" THEN Min(@ + 1, MaxStops)
                       ELSE @]]

\* __next__ after the fetch of the continuation page: an empty page ends
\* the iteration, another one is yielded from.
Continue(it, lg, offset, page) ==
  LET it2 == [it EXCEPT !.current_result = page, !.current_index = 0]
      lg2 == Fetched(lg, offset, page)
  IN  IF Len(page.entities) = 0
        THEN Raise([it2 EXCEPT !.exhausted = TRUE], lg2, "StopIteration")
        ELSE Yield(it2, lg2)

\* An iterator that starts over on its current page once it is used up.
ConsumeRewinds(it, lg) ==
  LET result == it.current_result
  IN  IF it.current_index < Len(result.entities) THEN {Yield(it, lg)}
      ELSE {Raise([it EXCEPT !.current_index = 0], lg, "StopIteration")}

\* __next__ once _current_result is set: the ways the call can end.  The
\* argument of the continuation fetch is _current_result.next_cursor.
Consume(it, lg) ==
  LET result == it.current_result
  IN  IF it.current_index < Len(result.entities) THEN {Yield(it, lg)}
      ELSE IF has_more(result) /\ ~it.exhausted
        THEN IF ~HasAttr("next_cursor")
               THEN {Raise(it, lg, "AttributeError")}
               ELSE {Continue(it, lg, result.cursor - 1, page) :
                       page \in ServerPages(result.cursor - 1)}
      ELSE {Raise(it, lg, "StopIteration")}

\* QueryIterator.block_number
block_number ==
  IF iterator.current_result # NoResult
    THEN iterator.current_result.block_number
    ELSE None

QueryInit ==
  /\ variant = "blocking"
  /\ event_type = "created"
  /\ from_block = Latest
  /\ chain = <<>>
  /\ starts = 0
  /\ cursors = [f \in Workers |-> 0]
  /\ running = FALSE
  /\ filter = None
  /\ worker = None
  /\ workers = [w \in Workers |-> Unborn]
  /\ caller = Returned("init")
  /\ uninstalled = FALSE
  /\ calls = <<>>
  /\ polls = 0
  /\ filters = <<>>
  /\ active_filters = <<>>
  /\ client = ClientIdle("init")
  /\ dataset \in [n : 0..MaxEntities, limit : 1..MaxLimit, block : 1..MaxBlock]
  /\ iterator = NewIterator
  /\ drain = [yielded |-> <<>>, fetches |-> <<>>, last |-> "none",
              honest |-> TRUE, stops |-> 0]
  /\ coroutines = NoCoroutines
  /\ given = NoCall
  /\ done = <<>>

\* One call of __next__ whose fetches return: the first page is fetched if
\* there is none yet, then the call yields, fetches on or raises.
NextCall ==
  /\ \E o \in IF iterator.current_result = NoResult
                THEN UNION {Consume([iterator EXCEPT !.current_result = page],
                                    Fetched(drain, 0, page)) :
                              page \in ServerPages(0)}
                ELSE Consume(iterator, drain) :
       /\ iterator' = o.it
       /\ drain' = o.lg
  /\ UNCHANGED <<variant, codecVars, chain, filterVars, moduleVars, dataset>>

\* An iterator that gives up once a fetch has raised.
NextFetchRaisesExhausts ==
  /\ iterator.current_result = NoResult
  /\ iterator' = [iterator EXCEPT !.exhausted = TRUE]
  /\ drain' = [drain EXCEPT !.last = "raised"]
  /\ UNCHANGED <<variant, codecVars, chain, filterVars, moduleVars, dataset>>

\* One call of __next__ whose fetch of the first page raises: the exception
\* leaves __next__ and the iterator is as before.
NextFetchRaises ==
  /\ iterator.current_result = NoResult
  /\ drain' = [drain EXCEPT !.last = "raised"]
  /\ UNCHANGED <<variant, codecVars, chain, filterVars, moduleVars, dataset, iterator>>

QueryNext ==
  \/ NextCall
  \/ NextFetchRaises

QuerySpec == QueryInit /\ [][QueryNext]_vars

\* ---------------------------------------------------------------- the codec
\* The pure functions of arkiv/utils.py and arkiv/types.py.  A Python str is
\* the sequence of its characters, a bytes object the sequence of its bytes.

\* The width of an entity key in bytes.  The keys of the chain have 32; the
\* functions below are those of the code with 32 read as KeyBytes, 64 as
\* 2 * KeyBytes and 66 as 2 + 2 * KeyBytes.
KeyBytes == 1

\* What a call comes to: the value it returns, or the exception it raises.
Ok(value) == [status |-> "ok", exc |-> "none", value |-> value]
Raised(exc, value) == [status |-> "raise", exc |-> exc, value |-> value]

HexChars ==
  <<"0", "1", "2", "3", "4", "5", "6", "7", "8", "9", "a", "b", "c", "d", "e", "f">>

RECURSIVE Power(_, _)
\* base ** e
Power(base, e) == IF e = 0 THEN 1 ELSE base * Power(base, e - 1)

RECURSIVE HexDigits(_)
\* The digits of hex(n) after the prefix, n >= 0: none is a leading zero
\* unless n = 0.
HexDigits(n) ==
  IF n < 16 THEN <<HexChars[n + 1]>>
  ELSE Append(HexDigits(n \div 16), HexChars[(n % 16) + 1])

\* Web3.to_hex of an int >= 0: hex(value).
to_hex(n) == <<"0", "x">> \o HexDigits(n)

\* str.zfill(width) of a string without sign.
zfill(str, width) ==
  IF Len(str) >= width THEN str
  ELSE [i \in 1..(width - Len(str)) |-> "0"] \o str

\* A key that is padded to one digit less than the width.
ToEntityKeyShortPad(entity_key_int) ==
  LET hex_value == to_hex(entity_key_int)
  IN  IF Len(hex_value) < 2 + 2 * KeyBytes
        THEN <<"0", "x">> \o zfill(SubSeq(hex_value, 3, Len(hex_value)),
                                   2 * KeyBytes - 1)
        ELSE hex_value

\* utils.to_entity_key
to_entity_key(entity_key_int) ==
  LET hex_value == to_hex(entity_key_int)
  IN  IF Len(hex_value) < 2 + 2 * KeyBytes
        THEN <<"0", "x">> \o zfill(SubSeq(hex_value, 3, Len(hex_value)),
                                   2 * KeyBytes)
        ELSE hex_value

\* The value of a hexadecimal digit, -1 for another character.
HexValue(c) ==
  IF \E d \in 1..16 : HexChars[d] = c
    THEN (CHOOSE d \in 1..16 : HexChars[d] = c) - 1
    ELSE -1

\* bytes.fromhex of a string without whitespace: ValueError on a character
\* that is no hexadecimal digit and on an odd number of digits.
fromhex(str) ==
  IF Len(str) % 2 = 1 \/ \E i \in 1..Len(str) : HexValue(str[i]) < 0
    THEN Raised("ValueError", <<>>)
    ELSE Ok([i \in 1..(Len(str) \div 2) |->
               16 * HexValue(str[2 * i - 1]) + HexValue(str[2 * i])])

\* utils.entity_key_to_bytes
entity_key_to_bytes(entity_key) ==
  fromhex(SubSeq(entity_key, 3, Len(entity_key)))

RECURSIVE lstrip(_)
\* str.lstrip() for the whitespace " ".
lstrip(str) == IF str # <<>> /\ Head(str) = " " THEN lstrip(Tail(str)) ELSE str

RECURSIVE rstrip(_)
rstrip(str) ==
  IF str # <<>> /\ str[Len(str)] = " " THEN rstrip(SubSeq(str, 1, Len(str) - 1))
  ELSE str

\* A digit of base 16, for int().
IsHexDigit(c) == HexValue(c) >= 0 \/ c \in {"A", "B", "C", "D", "E", "F"}

\* int(str, 16) returns rather than raising ValueError: surrounding
\* whitespace, one sign and the prefix 0x or 0X are accepted, then digits
\* with single underscores between them (one may follow the prefix).
int16_parses(str) ==
  LET stripped == rstrip(lstrip(str))
      unsigned == IF stripped # <<>> /\ stripped[1] \in {"+", "-"}
                    THEN Tail(stripped) ELSE stripped
      prefixed == /\ Len(unsigned) >= 2
                  /\ unsigned[1] = "0"
                  /\ unsigned[2] \in {"x", "X"}
      after == IF prefixed THEN SubSeq(unsigned, 3, Len(unsigned)) ELSE unsigned
      digits == IF prefixed /\ after # <<>> /\ after[1] = "_" THEN Tail(after)
                ELSE after
  IN  /\ digits # <<>>
      /\ digits[1] # "_"
      /\ digits[Len(digits)] # "_"
      /\ \A i \in 1..Len(digits) : IsHexDigit(digits[i]) \/ digits[i] = "_"
      /\ \A i \in 1..(Len(digits) - 1) : ~(digits[i] = "_" /\ digits[i + 1] = "_")

\* utils.is_hex_str of a str: a leading "0x" is cut off and int(value, 16)
\* decides.
is_hex_str(value) ==
  LET cut == IF Len(value) >= 2 /\ value[1] = "0" /\ value[2] = "x"
               THEN SubSeq(value, 3, Len(value)) ELSE value
  IN  int16_parses(cut)

\* utils.check_entity_key of None, an int or a str: returns None or raises
\* EntityKeyException.
check_entity_key(entity_key) ==
  IF entity_key.t = "None" THEN Raised("EntityKeyException", "None")
  ELSE IF entity_key.t # "str" THEN Raised("EntityKeyException", "type")
  ELSE IF Len(entity_key.v) # 2 + 2 * KeyBytes
    THEN Raised("EntityKeyException", "length")
  ELSE IF ~is_hex_str(entity_key.v) THEN Raised("EntityKeyException", "hex")
  ELSE Ok("None")

\* int.to_bytes(length, byteorder="big")
to_bytes(n, length) ==
  [i \in 1..length |-> (n \div Power(256, length - i)) % 256]

\* ------------------------------------------------------------- the encoder
\* The Python values the encoder hands to rlp.encode.
PyInt(n) == [t |-> "int", v |-> n]
PyStr(str) == [t |-> "str", v |-> str]
PyBytes(b) == [t |-> "bytes", v |-> b]
PyList(items) == [t |-> "list", v |-> items]
PyTuple(items) == [t |-> "tuple", v |-> items]
\* An argument that is left out, or passed as None.
PyNone == [t |-> "None", v |-> <<>>]

\* bool(x) of None or of a list.
Truthy(x) == x.t # "None" /\ x.v # <<>>

\* ord(c), for the characters of the strings used here.
Ord(c) ==
  CASE c = "$" -> 36 [] c = "/" -> 47 [] c = "0" -> 48 [] c = "1" -> 49
    [] c = "2" -> 50 [] c = "3" -> 51 [] c = "4" -> 52 [] c = "5" -> 53
    [] c = "6" -> 54 [] c = "7" -> 55 [] c = "8" -> 56 [] c = "9" -> 57
    [] c = "a" -> 97 [] c = "b" -> 98 [] c = "c" -> 99 [] c = "d" -> 100
    [] c = "e" -> 101 [] c = "f" -> 102 [] c = "i" -> 105 [] c = "k" -> 107
    [] c = "l" -> 108 [] c = "n" -> 110 [] c = "o" -> 111 [] c = "p" -> 112
    [] c = "t" -> 116 [] c = "v" -> 118 [] OTHER -> 120

\* str.encode("utf-8") of a string of ASCII characters.
utf8(str) == [i \in 1..Len(str) |-> Ord(str[i])]

RECURSIVE int_to_big_endian(_)
\* The big-endian bytes of n >= 0 without leading zeros: none for 0.
int_to_big_endian(n) ==
  IF n = 0 THEN <<>> ELSE Append(int_to_big_endian(n \div 256), n % 256)

\* rlp: the prefix of an item whose body has len bytes.
length_prefix(len, offset) ==
  IF len < 56 THEN <<offset + len>>
  ELSE LET length_string == int_to_big_endian(len)
       IN  <<offset + 55 + Len(length_string)>> \o length_string

\* rlp: a byte string as an item.
encode_raw(b) ==
  IF Len(b) = 1 /\ b[1] < 128 THEN b ELSE length_prefix(Len(b), 128) \o b

RECURSIVE Concat(_)
Concat(parts) == IF parts = <<>> THEN <<>> ELSE Head(parts) \o Concat(Tail(parts))

RECURSIVE rlp_encode(_)
\* rlp.encode of an int >= 0, a str, a bytes, or a list or tuple of such.
rlp_encode(obj) ==
  CASE obj.t = "int" -> encode_raw(int_to_big_endian(obj.v))
    [] obj.t = "str" -> encode_raw(utf8(obj.v))
    [] obj.t = "bytes" -> encode_raw(obj.v)
    [] OTHER ->
         LET body == Concat([k \in 1..Len(obj.v) |-> rlp_encode(obj.v[k])])
         IN  length_prefix(Len(body), 192) \o body

\* An entry of an Annotations dict; the dict is the sequence of its entries
\* in insertion order, no two with the same key.
Entry(key, value) == [key |-> key, value |-> value]

\* The dataclasses of the operations.
CreateOp(payload, content_type, annotations, btl) ==
  [payload |-> payload, content_type |-> content_type,
   annotations |-> annotations, btl |-> btl]
UpdateOp(entity_key, payload, content_type, annotations, btl) ==
  [entity_key |-> entity_key, payload |-> payload,
   content_type |-> content_type, annotations |-> annotations, btl |-> btl]
DeleteOp(entity_key) == [entity_key |-> entity_key]
ExtendOp(entity_key, number_of_blocks) ==
  [entity_key |-> entity_key, number_of_blocks |-> number_of_blocks]
ChangeOwnerOp(entity_key, new_owner) ==
  [entity_key |-> entity_key, new_owner |-> new_owner]

\* A constructor that only looks at the creates.
OperationsCreatesOnly(creates, updates, deletes, extensions, change_owners) ==
  LET self == [creates |-> IF Truthy(creates) THEN creates.v ELSE <<>>,
               updates |-> IF Truthy(updates) THEN updates.v ELSE <<>>,
               deletes |-> IF Truthy(deletes) THEN deletes.v ELSE <<>>,
               extensions |-> IF Truthy(extensions) THEN extensions.v ELSE <<>>,
               change_owners |->
                 IF Truthy(change_owners) THEN change_owners.v ELSE <<>>]
  IN  IF self.creates = <<>> THEN Raised("ValueError", <<>>) ELSE Ok(self)

\* Operations.__init__: each list is the argument or [], and a batch without
\* any operation raises ValueError.
Operations(creates, updates, deletes, extensions, change_owners) ==
  LET self == [creates |-> IF Truthy(creates) THEN creates.v ELSE <<>>,
               updates |-> IF Truthy(updates) THEN updates.v ELSE <<>>,
               deletes |-> IF Truthy(deletes) THEN deletes.v ELSE <<>>,
               extensions |-> IF Truthy(extensions) THEN extensions.v ELSE <<>>,
               change_owners |->
                 IF Truthy(change_owners) THEN change_owners.v ELSE <<>>]
  IN  IF ~(\/ self.creates # <<>>
           \/ self.updates # <<>>
           \/ self.deletes # <<>>
           \/ self.extensions # <<>>
           \/ self.change_owners # <<>>)
        THEN Raised("ValueError", <<>>)
        ELSE Ok(self)

\* The first of a set of positions.
First(positions) == CHOOSE i \in positions : \A j \in positions : i <= j

\* The pair (key, value) split_annotations appends to a list.
Pair(e) == PyTuple(<<PyStr(e.key), e.value>>)

\* A split that leaves a negative value out instead of raising.
SplitAnnotationsDropsNegative(annotations) ==
  LET strings == SelectSeq(annotations, LAMBDA e : e.value.t # "int")
      numbers == SelectSeq(annotations,
                           LAMBDA e : e.value.t = "int" /\ e.value.v >= 0)
  IN  Ok([string_annotations |-> [k \in 1..Len(strings) |-> Pair(strings[k])],
          numeric_annotations |-> [k \in 1..Len(numbers) |-> Pair(numbers[k])]])

\* utils.split_annotations: the entries are taken in insertion order, an
\* int goes to the numeric list and anything else to the string list, and
\* the first negative int raises AnnotationException naming key and value.
\* None and {} give two empty lists.
split_annotations(annotations) ==
  LET negative == {i \in 1..Len(annotations) :
                     /\ annotations[i].value.t = "int"
                     /\ annotations[i].value.v < 0}
      strings == SelectSeq(annotations, LAMBDA e : e.value.t # "int")
      numbers == SelectSeq(annotations, LAMBDA e : e.value.t = "int")
  IN  IF negative # {}
        THEN Raised("AnnotationException", annotations[First(negative)])
        ELSE Ok([string_annotations |->
                   [k \in 1..Len(strings) |-> Pair(strings[k])],
                 numeric_annotations |->
                   [k \in 1..Len(numbers) |-> Pair(numbers[k])]])

\* An element of the annotation lists the node returns: an AttributeDict
\* with the attributes key and value.
AttributeDict(key, value) == [t |-> "AttributeDict", v |-> <<PyStr(key), value>>]

\* annotations[key] = value
DictSet(annotations, key, value) ==
  IF \E i \in 1..Len(annotations) : annotations[i].key = key
    THEN [i \in 1..Len(annotations) |->
            IF annotations[i].key = key THEN Entry(key, value)
            ELSE annotations[i]]
    ELSE Append(annotations, Entry(key, value))

RECURSIVE MergeIntoKeepsReserved(_, _, _)
\* A loop that keeps the keys that start with "$".
MergeIntoKeepsReserved(annotations, elements, wanted) ==
  IF elements = <<>> THEN annotations
  ELSE LET key == Head(elements).v[1].v
           value == Head(elements).v[2]
       IN  IF value.t # wanted
             THEN MergeIntoKeepsReserved(annotations, Tail(elements), wanted)
             ELSE MergeIntoKeepsReserved(DictSet(annotations, key, value),
                                         Tail(elements), wanted)

RECURSIVE MergeInto(_, _, _)
\* One loop of merge_annotations over elements with the attributes key and
\* value: a key that starts with "$" is left out, and so is a value that is
\* not of the type wanted.
MergeInto(annotations, elements, wanted) ==
  IF elements = <<>> THEN annotations
  ELSE LET key == Head(elements).v[1].v
           value == Head(elements).v[2]
       IN  IF (key # <<>> /\ key[1] = "$") \/ value.t # wanted
             THEN MergeInto(annotations, Tail(elements), wanted)
             ELSE MergeInto(DictSet(annotations, key, value), Tail(elements),
                            wanted)

\* utils.merge_annotations: element.key of an element that is no
\* AttributeDict (a tuple has no attribute key) raises AttributeError.
merge_annotations(string_annotations, numeric_annotations) ==
  IF \/ \E i \in 1..Len(string_annotations) :
          string_annotations[i].t # "AttributeDict"
     \/ \E i \in 1..Len(numeric_annotations) :
          numeric_annotations[i].t # "AttributeDict"
    THEN Raised("AttributeError", <<>>)
    ELSE Ok(MergeInto(MergeInto(<<>>, string_annotations, "str"),
                      numeric_annotations, "int"))

\* The element of a create: [btl, content_type, payload, strings, numbers].
CreateElement(element) ==
  LET split == split_annotations(element.annotations)
  IN  IF split.status = "raise" THEN split
      ELSE Ok(PyList(<<PyInt(element.btl), PyStr(element.content_type),
                       PyBytes(element.payload),
                       PyList(split.value.string_annotations),
                       PyList(split.value.numeric_annotations)>>))

\* An update laid out as a create behind its key.
UpdateElementAsCreate(element) ==
  LET key == entity_key_to_bytes(element.entity_key)
      split == split_annotations(element.annotations)
  IN  IF key.status = "raise" THEN key
      ELSE IF split.status = "raise" THEN split
      ELSE Ok(PyList(<<PyBytes(key.value), PyInt(element.btl),
                       PyStr(element.content_type), PyBytes(element.payload),
                       PyList(split.value.string_annotations),
                       PyList(split.value.numeric_annotations)>>))

\* The element of an update:
\* [key bytes, content_type, btl, payload, strings, numbers].
UpdateElement(element) ==
  LET key == entity_key_to_bytes(element.entity_key)
      split == split_annotations(element.annotations)
  IN  IF key.status = "raise" THEN key
      ELSE IF split.status = "raise" THEN split
      ELSE Ok(PyList(<<PyBytes(key.value), PyStr(element.content_type),
                       PyInt(element.btl), PyBytes(element.payload),
                       PyList(split.value.string_annotations),
                       PyList(split.value.numeric_annotations)>>))

\* The element of a delete: the key bytes.
DeleteElement(element) ==
  LET key == entity_key_to_bytes(element.entity_key)
  IN  IF key.status = "raise" THEN key ELSE Ok(PyBytes(key.value))

\* The element of an extension: [key bytes, number_of_blocks].
ExtendElement(element) ==
  LET key == entity_key_to_bytes(element.entity_key)
  IN  IF key.status = "raise" THEN key
      ELSE Ok(PyList(<<PyBytes(key.value), PyInt(element.number_of_blocks)>>))

\* The element of a change of owner: [key bytes, new_owner].
ChangeOwnerElement(element) ==
  LET key == entity_key_to_bytes(element.entity_key)
  IN  IF key.status = "raise" THEN key
      ELSE Ok(PyList(<<PyBytes(key.value), PyStr(element.new_owner)>>))

\* A list comprehension over elements that may raise: the first exception
\* ends it, else it is the list of the values.
Comprehension(results) ==
  LET failed == {k \in 1..Len(results) : results[k].status = "raise"}
  IN  IF failed # {} THEN results[First(failed)]
      ELSE Ok(PyList([k \in 1..Len(results) |-> results[k].value]))

\* An encoder that writes the deletes before the updates.
RlpEncodeTransactionDeletesSecond(tx) ==
  LET lists ==
        <<Comprehension([k \in 1..Len(tx.creates) |-> CreateElement(tx.creates[k])]),
          Comprehension([k \in 1..Len(tx.deletes) |-> DeleteElement(tx.deletes[k])]),
          Comprehension([k \in 1..Len(tx.updates) |-> UpdateElement(tx.updates[k])]),
          Comprehension([k \in 1..Len(tx.extensions) |->
                           ExtendElement(tx.extensions[k])]),
          Comprehension([k \in 1..Len(tx.change_owners) |->
                           ChangeOwnerElement(tx.change_owners[k])])>>
      payload == Comprehension(lists)
  IN  IF payload.status = "raise" THEN payload
      ELSE Ok(rlp_encode(payload.value))

\* utils.rlp_encode_transaction: the payload is the list of the five lists
\* of elements, built in this order, and the result its RLP encoding; an
\* exception raised while an element is built leaves the function.
rlp_encode_transaction(tx) ==
  LET lists ==
        <<Comprehension([k \in 1..Len(tx.creates) |-> CreateElement(tx.creates[k])]),
          Comprehension([k \in 1..Len(tx.updates) |-> UpdateElement(tx.updates[k])]),
          Comprehension([k \in 1..Len(tx.deletes) |-> DeleteElement(tx.deletes[k])]),
          Comprehension([k \in 1..Len(tx.extensions) |->
                           ExtendElement(tx.extensions[k])]),
          Comprehension([k \in 1..Len(tx.change_owners) |->
                           ChangeOwnerElement(tx.change_owners[k])])>>
      payload == Comprehension(lists)
  IN  IF payload.status = "raise" THEN payload
      ELSE Ok(rlp_encode(payload.value))

\* ------------------------------------------------------------ the receipt
\* A log of a transaction receipt: event is the name its first topic stands
\* for, topics whether it has a topic at all, shape whether its topics and
\* data fit the inputs the ABI declares ("abi") or fall short of them, and
\* entityKey the integer of its first indexed input.

\* utils.get_event_data: ValueError for a log without topics; the lookup of
\* a topic no event of the ABI has raises, and so does process_log for a
\* log that does not fit the inputs declared.
get_event_data(log) ==
  IF ~log.topics THEN Raised("ValueError", <<>>)
  ELSE IF AbiInputs(log.event) = {} THEN Raised("MismatchedABI", <<>>)
  ELSE IF log.shape # "abi" THEN Raised("LogTopicError", <<>>)
  ELSE Ok([event |-> log.event, args |-> AbiInputs(log.event)])

\* The bucket of the receipt the match of to_receipt appends an event to,
\* "none" where it only logs: isinstance is checked under each name.
Bucket(event_name, cls) ==
  CASE event_name = CREATED_EVENT /\ cls = "CreateEvent" -> "creates"
    [] event_name = UPDATED_EVENT /\ cls = "UpdateEvent" -> "updates"
    [] event_name = DELETED_EVENT /\ cls = "DeleteEvent" -> "deletes"
    [] event_name = EXTENDED_EVENT /\ cls = "ExtendEvent" -> "extensions"
    [] event_name = OWNER_CHANGED_EVENT /\ cls = "ChangeOwnerEvent" ->
         "change_owners"
    [] OTHER -> "none"

\* One turn of the loop of to_receipt, up to the append: the event and its
\* bucket; "raise" where an exception reaches the except clause, "skip"
\* where to_event returns None or the match only logs.
Turn(log) ==
  LET event_data == get_event_data(log)
      event == ToEvent(log)
  IN  IF event_data.status = "raise" \/ event.status = "raise"
        THEN [status |-> "raise", bucket |-> "none", cls |-> "None",
              entity_key |-> <<>>]
      ELSE IF event.cls = "None" \/ Bucket(log.event, event.cls) = "none"
        THEN [status |-> "skip", bucket |-> "none", cls |-> event.cls,
              entity_key |-> to_entity_key(log.entityKey)]
      ELSE [status |-> "append", bucket |-> Bucket(log.event, event.cls),
            cls |-> event.cls, entity_key |-> to_entity_key(log.entityKey)]

\* The events the loop appends to one bucket, in the order of the logs.
Appended(logs, bucket) ==
  LET turns == [k \in 1..Len(logs) |-> Turn(logs[k])]
      kept == SelectSeq(turns, LAMBDA t : t.status = "append" /\ t.bucket = bucket)
  IN  [k \in 1..Len(kept) |-> [cls |-> kept[k].cls, entity_key |-> kept[k].entity_key]]

\* A to_receipt without the try around a log: the exception of a log
\* leaves the function.
ToReceiptNoTry(tx_hash_, tx_receipt) ==
  IF tx_receipt.blockNumber.t = "None" THEN Raised("ValueError", <<>>)
  ELSE IF \E k \in 1..Len(tx_receipt.logs) :
            Turn(tx_receipt.logs[k]).status = "raise"
    THEN Raised("Exception", <<>>)
  ELSE Ok([block_number |-> tx_receipt.blockNumber.v,
           tx_hash |-> tx_hash_,
           creates |-> Appended(tx_receipt.logs, "creates"),
           updates |-> Appended(tx_receipt.logs, "updates"),
           extensions |-> Appended(tx_receipt.logs, "extensions"),
           deletes |-> Appended(tx_receipt.logs, "deletes"),
           change_owners |-> Appended(tx_receipt.logs, "change_owners")])

\* utils.to_receipt, for a tx_hash_ that is a str: ValueError without a
\* block number; else the logs are taken in order, each inside a try whose
\* except clause goes on with the next log.
to_receipt(tx_hash_, tx_receipt) ==
  IF tx_receipt.blockNumber.t = "None" THEN Raised("ValueError", <<>>)
  ELSE Ok([block_number |-> tx_receipt.blockNumber.v,
           tx_hash |-> tx_hash_,
           creates |-> Appended(tx_receipt.logs, "creates"),
           updates |-> Appended(tx_receipt.logs, "updates"),
           extensions |-> Appended(tx_receipt.logs, "extensions"),
           deletes |-> Appended(tx_receipt.logs, "deletes"),
           change_owners |-> Appended(tx_receipt.logs, "change_owners")])

\* ------------------------------------------------------- calls of the codec
\* Operations in one list of a batch.
MaxOps == 2
\* Entries of an attribute map.
MaxAttrs == 2

\* The sequences over S of at most n elements.
SeqsUpTo(S, n) == UNION {[1..k -> S] : k \in 0..n}

text_plain == <<"t", "e", "x", "t", "/", "p", "l", "a", "i", "n">>

\* Attribute maps of the operations: none (the creates) or a string and a
\* number (the updates), and maps whose second entry is the first of two
\* negative numbers.
Mixed == <<Entry(<<"k">>, PyStr(<<"v">>)), Entry(<<"n">>, PyInt(5))>>
NegativeInCreate ==
  <<Entry(<<"n">>, PyInt(7)), Entry(<<"k">>, PyInt(-1)), Entry(<<"e">>, PyInt(-2))>>
NegativeInUpdate ==
  <<Entry(<<"n">>, PyInt(7)), Entry(<<"k">>, PyInt(-3)), Entry(<<"e">>, PyInt(-4))>>

CreateOps ==
  {CreateOp(<<120>>, text_plain, a, 10) : a \in {<<>>, NegativeInCreate}}
UpdateOps ==
  {UpdateOp(to_entity_key(1), <<120>>, text_plain, a, 20) :
     a \in {Mixed, NegativeInUpdate}}
DeleteOps == {DeleteOp(to_entity_key(1)), DeleteOp(to_entity_key(2))}
ExtendOps == {ExtendOp(to_entity_key(1), 5)}
ChangeOwnerOps == {ChangeOwnerOp(to_entity_key(2), <<"0", "x", "a", "1">>)}

\* What a caller may pass for one list of a batch: nothing, or a list.
ListArgs(ops) == {PyNone} \cup {PyList(q) : q \in SeqsUpTo(ops, MaxOps)}

\* The calls Operations(creates=.., updates=.., ..).
BatchCalls ==
  [fn : {"Operations"}, creates : ListArgs(CreateOps),
   updates : ListArgs(UpdateOps), deletes : ListArgs(DeleteOps),
   extensions : ListArgs(ExtendOps), change_owners : ListArgs(ChangeOwnerOps)]

\* The calls to_entity_key(n), for the integers of the width of a key.
KeyCalls == [fn : {"to_entity_key"}, n : 0..(Power(256, KeyBytes) - 1)]

\* The attribute maps handed to split_annotations: keys, one of them
\* reserved, with a string, a zero, a positive or a negative number.
AttrKeys == {<<"k">>, <<"n">>, <<"$", "o">>}
AttrValues == {PyStr(<<"v">>), PyInt(0), PyInt(5), PyInt(-1)}
AttrMaps ==
  {q \in SeqsUpTo([key : AttrKeys, value : AttrValues], MaxAttrs) :
     \A i, j \in 1..Len(q) : i # j => q[i].key # q[j].key}
SplitCalls == [fn : {"split_annotations"}, annotations : AttrMaps]

\* The lists the node returns for an entity with the attributes a: what
\* split_annotations gives, each pair as an AttributeDict.
NodeLists(a) ==
  LET split == split_annotations(a).value
      Node(pair) == AttributeDict(pair.v[1].v, pair.v[2])
  IN  [string_annotations |->
         [k \in 1..Len(split.string_annotations) |->
            Node(split.string_annotations[k])],
       numeric_annotations |->
         [k \in 1..Len(split.numeric_annotations) |->
            Node(split.numeric_annotations[k])]]
MergeCalls ==
  {[fn |-> "merge_annotations", annotations |-> a, lists |-> NodeLists(a)] :
     a \in {q \in AttrMaps : split_annotations(q).status = "ok"}}

\* Logs of one transaction receipt.
MaxReceiptLogs == 2

\* The names of the events that are not legacy ones.
EventNames ==
  {CREATED_EVENT, UPDATED_EVENT, EXPIRED_EVENT, DELETED_EVENT, EXTENDED_EVENT,
   OWNER_CHANGED_EVENT}

\* The logs a receipt may hold: one of each event of the contract that
\* fits the ABI, a legacy one, one of an event the ABI does not have, one
\* without topics, and one whose data fall short of the inputs declared.
ReceiptLogKinds ==
  [event : EventNames \cup {CREATED_EVENT_LEGACY, "Transfer"},
   topics : {TRUE}, shape : {"abi"}]
    \cup {[event |-> CREATED_EVENT, topics |-> FALSE, shape |-> "abi"],
          [event |-> CREATED_EVENT, topics |-> TRUE, shape |-> "short"]}

\* The k-th log of a receipt has the entity key k.
ReceiptLogs ==
  {[k \in 1..Len(q) |->
      [event |-> q[k].event, topics |-> q[k].topics, shape |-> q[k].shape,
       entityKey |-> k]] : q \in SeqsUpTo(ReceiptLogKinds, MaxReceiptLogs)}

\* The calls to_receipt(contract, tx_hash, tx_receipt).
ReceiptCalls ==
  [fn : {"to_receipt"}, tx_hash : {<<"0", "x", "0", "1">>},
   tx_receipt : [blockNumber : {PyNone, PyInt(1)}, logs : ReceiptLogs]]

\* The calls to_event(contract, log) with a log that fits the ABI.
EventCalls ==
  [fn : {"to_event"},
   log : [event : EventNames \cup {CREATED_EVENT_LEGACY}, topics : {TRUE},
          shape : {"abi"}, entityKey : {1}]]

\* The characters of the strings handed to check_entity_key: digits, the
\* x of the prefix, a letter that is no digit and a sign.
KeyChars == {"0", "x", "f", "g", "-"}

\* The calls check_entity_key(value): None, an int, the strings of one
\* character less or more than a key and of the length of a key (n = -1),
\* and the keys to_entity_key(n) returns.
CheckCalls ==
  [fn : {"check_entity_key"}, n : {-1},
   value : {[t |-> "None", v |-> <<>>]}
             \cup {PyStr(str) :
                     str \in UNION {[1..len -> KeyChars] :
                                      len \in (2 * KeyBytes + 1)..(2 * KeyBytes + 3)}}]
    \cup {[fn |-> "check_entity_key", n |-> n, value |-> PyStr(to_entity_key(n))] :
            n \in 0..(Power(256, KeyBytes) - 1)}
    \cup {[fn |-> "check_entity_key", n |-> -1, value |-> [t |-> "int", v |-> <<>>]]}

\* The rest of the state, which the codec never touches.
engineVars == <<variant, chain, filterVars, moduleVars, queryVars>>

CodecInit ==
  /\ variant = "blocking"
  /\ event_type = "created"
  /\ from_block = Latest
  /\ chain = <<>>
  /\ starts = 0
  /\ cursors = [f \in Workers |-> 0]
  /\ running = FALSE
  /\ filter = None
  /\ worker = None
  /\ workers = [w \in Workers |-> Unborn]
  /\ caller = Returned("init")
  /\ uninstalled = FALSE
  /\ calls = <<>>
  /\ polls = 0
  /\ filters = <<>>
  /\ active_filters = <<>>
  /\ client = ClientIdle("init")
  /\ dataset = [n |-> 0, limit |-> 1, block |-> 1]
  /\ iterator = NewIterator
  /\ drain = [yielded |-> <<>>, fetches |-> <<>>, last |-> "none",
              honest |-> TRUE, stops |-> 0]
  /\ coroutines = NoCoroutines
  /\ \/ given \in BatchCalls
     \/ given \in KeyCalls
     \/ given \in SplitCalls
     \/ given \in MergeCalls
     \/ given \in ReceiptCalls
     \/ given \in EventCalls
     \/ given \in CheckCalls
  /\ done = <<>>

\* Operations(...) is called with the lists given.
OperationsInit ==
  /\ given.fn = "Operations"
  /\ done = <<>>
  /\ done' = <<Operations(given.creates, given.updates, given.deletes,
                          given.extensions, given.change_owners)>>
  /\ UNCHANGED <<engineVars, given>>

\* rlp_encode_transaction is called with the batch constructed.
RlpEncodeTransaction ==
  /\ given.fn = "Operations"
  /\ Len(done) = 1
  /\ done[1].status = "ok"
  /\ done' = Append(done, rlp_encode_transaction(done[1].value))
  /\ UNCHANGED <<engineVars, given>>

ToEntityKey ==
  /\ given.fn = "to_entity_key"
  /\ done = <<>>
  /\ done' = <<Ok(to_entity_key(given.n))>>
  /\ UNCHANGED <<engineVars, given>>

\* entity_key_to_bytes is called with the key to_entity_key returned.
EntityKeyToBytes ==
  /\ given.fn = "to_entity_key"
  /\ Len(done) = 1
  /\ done' = Append(done, entity_key_to_bytes(done[1].value))
  /\ UNCHANGED <<engineVars, given>>

SplitAnnotations ==
  /\ given.fn = "split_annotations"
  /\ done = <<>>
  /\ done' = <<split_annotations(given.annotations)>>
  /\ UNCHANGED <<engineVars, given>>

\* merge_annotations is called with the two lists split_annotations returned,
\* or with the lists of the node.
MergeAnnotations ==
  /\ \/ /\ given.fn = "split_annotations"
        /\ Len(done) = 1
        /\ done[1].status = "ok"
        /\ done' = Append(done,
                          merge_annotations(done[1].value.string_annotations,
                                            done[1].value.numeric_annotations))
     \/ /\ given.fn = "merge_annotations"
        /\ done = <<>>
        /\ done' = <<merge_annotations(given.lists.string_annotations,
                                       given.lists.numeric_annotations)>>
  /\ UNCHANGED <<engineVars, given>>

\* to_event is called with the log given.
DecodeLog ==
  /\ given.fn = "to_event"
  /\ done = <<>>
  /\ done' = <<LET event_data == get_event_data(given.log)
                   event == ToEvent(given.log)
               IN  IF event_data.status = "raise" THEN event_data
                   ELSE IF event.status = "raise"
                     THEN Raised("KeyError", event.cls)
                   ELSE Ok([cls |-> event.cls,
                            entity_key |-> to_entity_key(given.log.entityKey)])>>
  /\ UNCHANGED <<engineVars, given>>

ToReceipt ==
  /\ given.fn = "to_receipt"
  /\ done = <<>>
  /\ done' = <<to_receipt(given.tx_hash, given.tx_receipt)>>
  /\ UNCHANGED <<engineVars, given>>

CheckEntityKey ==
  /\ given.fn = "check_entity_key"
  /\ done = <<>>
  /\ done' = <<check_entity_key(given.value)>>
  /\ UNCHANGED <<engineVars, given>>

CodecNext ==
  \/ OperationsInit
  \/ RlpEncodeTransaction
  \/ ToEntityKey
  \/ EntityKeyToBytes
  \/ SplitAnnotations
  \/ MergeAnnotations
  \/ DecodeLog
  \/ ToReceipt
  \/ CheckEntityKey

CodecSpec == CodecInit /\ [][CodecNext]_vars

\* ---------------------------------------------------------------- claims
\* EventFilterBase.is_running / EventFilter.is_running
is_running == running

\* The caller is between two lifecycle calls, the last of which was op.
After(op) == caller.pc = "idle" /\ caller.op = op

\* C1: uninstalled is terminal: once uninstall() has been called, the filter
\* never reports running again, whatever is called later.
C1_UninstalledNeverRuns == uninstalled => ~is_running

\* The worker w goes on with its batch after the callback on the head of it:
\* the logs that follow are still processed, in order.
GoesOn(w) ==
  LET wr == workers[w]
      nr == workers'[w]
  IN  IF variant = "blocking"
        THEN /\ nr.rest = Tail(wr.rest)
             /\ nr.pc = IF nr.rest = <<>> THEN "sleep" ELSE "dispatch"
        ELSE /\ nr.rest = DropSkipped(Tail(wr.rest))
             /\ nr.pc = IF nr.rest = <<>> THEN "sleep" ELSE "callback"
             /\ nr.rest # <<>> => /\ Len(calls') = Len(calls) + 1
                                  /\ calls'[Len(calls')].tx_hash = Head(nr.rest).tx

\* C2: an exception of the user callback is caught inside the filter: the
\* caller sees nothing of it (its position, the flag and the references are
\* unchanged), the poll loop goes on, and the logs that follow in the batch
\* are still dispatched.
C2_CallbackExceptionIsCaught ==
  [][\A w \in Workers :
       (/\ workers[w].pc = "callback"
        /\ calls[workers[w].call].outcome = "pending"
        /\ calls'[workers[w].call].outcome = "raised")
       => /\ GoesOn(w)
          /\ UNCHANGED callerVars]_vars

\* C2 witness: a log of a later poll was dispatched after a callback raised.
C2_Witness ==
  \E i, j \in 1..Len(calls) :
     /\ i < j
     /\ calls[i].outcome = "raised"
     /\ calls[i].poll < calls[j].poll

C4_UninstallStopsAndReleases ==
  [][(caller'.pc = "idle" /\ caller'.op = "uninstall")
       => /\ ~is_running'
          /\ filter' = None
          /\ caller = caller' => Len(calls') = Len(calls)]_vars

\* C4 witness: uninstall() has returned on a filter that was running and had
\* dispatched a log.
C4_Witness ==
  /\ After("uninstall")
  /\ starts > 0
  /\ calls # <<>>
  /\ ~is_running
  /\ filter = None

\* The class of the typed event of an event type.
EventClass(etype) ==
  CASE etype = "created" -> "CreateEvent"
    [] etype = "updated" -> "UpdateEvent"
    [] etype = "extended" -> "ExtendEvent"
    [] etype = "deleted" -> "DeleteEvent"
    [] OTHER -> "None"

\* The calls made for the logs of poll p, in order.
CallsOfPoll(p) ==
  LET OfPoll(c) == c.poll = p
  IN  SelectSeq(calls, OfPoll)

\* C5: while the filter runs, every log the node returned to a poll has been
\* dispatched exactly once when the worker sleeps after that poll: one call
\* per log, in order, with the typed event of the watched kind and the hash
\* of the log's transaction.
C5_EveryPolledLogDispatchedOnce ==
  \A w \in Workers :
     (workers[w].pc = "sleep" /\ workers[w].got # <<>>)
     => LET got == workers[w].got
            cs == CallsOfPoll(workers[w].poll)
        IN  /\ Len(cs) = Len(got)
            /\ \A k \in 1..Len(cs) :
                  /\ cs[k].tx_hash = got[k].tx
                  /\ cs[k].cls = EventClass(event_type)

\* C6: a failed round trip is caught in the loop, which sleeps and, as long
\* as the filter runs, polls again, whatever failed before; a worker ends
\* only when the filter has been stopped.
C6_PollFailureIsRetried ==
  [][\A w \in Workers :
       /\ PollFail(w) => workers'[w].pc = "errsleep"
       /\ (workers[w].pc = "errsleep" /\ workers'[w].pc # "errsleep")
          => IF running /\ CanRun(w)
               THEN workers'[w].pc \in
                      IF variant = "blocking" THEN {"poll"}
                      ELSE IF filter # None THEN {"roundtrip"} ELSE {"sleep"}
               ELSE workers'[w].pc = "done"
       /\ (Alive(w) /\ workers'[w].pc = "done") => ~running]_vars

\* C6 witness: a round trip has failed and the worker of the running filter
\* sleeps before its next poll.
C6_Witness ==
  \E w \in Workers : workers[w].pc = "errsleep" /\ running /\ worker = w

\* C7: the callback is invoked for the logs of one poll in the order the
\* node returned them (chain order), and for every log of an earlier poll
\* before any log of a later poll.
C7_DispatchOrder ==
  \A i, j \in 1..Len(calls) :
     i < j => \/ calls[i].poll < calls[j].poll
              \/ /\ calls[i].poll = calls[j].poll
                 /\ calls[i].idx < calls[j].idx
                 /\ calls[i].tx_hash < calls[j].tx_hash

\* C7 witness: two logs of one poll have been dispatched.
C7_Witness ==
  \E i, j \in 1..Len(calls) : i < j /\ calls[i].poll = calls[j].poll

\* C8: once stop() of the cooperative filter has returned, its poll task has
\* ended (no task is alive), and the callback is not invoked until the next
\* lifecycle call.
C8_StopAwaitsTheTask ==
  [][(variant = "coop" /\ caller'.pc = "idle" /\ caller'.op = "stop")
       => /\ \A w \in Workers : workers'[w].pc \in {"unborn", "done"}
          /\ caller = caller' => Len(calls') = Len(calls)]_vars

\* C8 witness: stop() has returned on a cooperative filter whose task had
\* dispatched a log.
C8_Witness ==
  /\ variant = "coop"
  /\ After("stop")
  /\ calls # <<>>
  /\ workers[1].pc = "done"

\* C9: every stop() that has to wait for its worker returns.
C9_StopReturns == (caller.pc = "join") ~> (caller.pc = "idle")

\* C9 witness: stop() of the blocking filter has returned although its
\* worker has not ended.
C9_Witness ==
  /\ variant = "blocking"
  /\ After("stop")
  /\ \E w \in Workers : Alive(w)

\* C10: in the blocking filter, clearing the flag changes no worker; a worker
\* ends only at the top of an iteration, with the flag cleared; within an
\* iteration it goes on whatever the flag says; and at the top of an
\* iteration it ends when the flag is cleared.
C10_FlagIsReadAtTheTop ==
  [][variant = "blocking" =>
       /\ (running /\ ~running') => workers' = workers
       /\ \A w \in Workers :
            /\ (Alive(w) /\ workers'[w].pc = "done")
               => (workers[w].pc \in {"top", "sleep", "errsleep"} /\ ~running)
            /\ (workers[w].pc \in {"top", "sleep", "errsleep"}
                /\ workers'[w] # workers[w] /\ ~running)
               => workers'[w].pc = "done"]_vars

\* C10 witness: the flag is cleared while a worker is in its round trip.
C10_Witness ==
  /\ variant = "blocking"
  /\ ~running
  /\ \E w \in Workers : workers[w].pc = "roundtrip"

\* C11: with from_block = "latest", a log emitted while the filter was not
\* running (before its first start, or between a stop and a later start) is
\* never handed to the callback.
C11_LatestSkipsWhatWasMissed ==
  from_block.tag = "latest"
  => \A i \in 1..Len(calls) : chain[calls[i].tx_hash].live

\* C11 witness: a filter watching from "latest" was started after a log of
\* its kind had been emitted, and has dispatched a later log.
C11_Witness ==
  /\ from_block.tag = "latest"
  /\ \E n \in 1..Len(chain) : ~chain[n].live /\ Matches(chain[n])
  /\ \E i \in 1..Len(calls) : chain[calls[i].tx_hash].live

\* The step is an operation on filter i, or a poll of its worker.
StepOf(i) ==
  \/ FilterStart(i)
  \/ FilterStop(i)
  \/ FilterUninstall(i)
  \/ FilterPoll(i, "ok")
  \/ FilterPoll(i, "raised")

\* C12: filters of one client are independent: a poll of a filter hands
\* every log of its kind the node returns to its callback, however many
\* other filters there are, and a start, stop, uninstall or poll (with a
\* returning or a raising callback) of one filter changes neither the
\* running flag nor the deliveries of another.
C12_FiltersAreIndependent ==
  [][\A i \in 1..Len(filters) :
       /\ (FilterPoll(i, "ok") \/ FilterPoll(i, "raised"))
          => Len(filters'[i].delivered)
               = Len(filters[i].delivered) + Len(ClientEntries(filters[i]))
       /\ StepOf(i)
          => \A j \in 1..Len(filters) : j # i => filters'[j] = filters[j]]_vars

\* C13: when cleanup_filters() returns, every filter that was in the
\* registry reports not running and the registry is empty.
C13_CleanupStopsAndEmpties ==
  [][(client' = ClientIdle("cleanup") /\ (CleanupStep \/ CleanupCall))
       => /\ active_filters' = <<>>
          /\ \A k \in 1..Len(active_filters) :
                ~filters'[active_filters[k]].running]_vars

\* C13 witness: cleanup_filters() has returned on a client with two filters,
\* one of which had delivered an event.
C13_Witness ==
  /\ client = ClientIdle("cleanup")
  /\ Len(filters) = 2
  /\ active_filters = <<>>
  /\ \E i \in 1..2 : filters[i].delivered # <<>> /\ filters[i].filter = None
  /\ \A i \in 1..2 : ~filters[i].running

WorkerStep(w) ==
  \/ LoopTop(w)
  \/ PollBegin(w)
  \/ Dispatch(w)
  \/ TaskStep(w)
  \/ TaskCancelled(w)
  \/ PollReturn(w)
  \/ PollFail(w)
  \/ CallbackReturn(w)
  \/ CallbackRaise(w)

\* C15: the running flag changes only in start(), stop() and uninstall(); no
\* step of a poll worker changes it, whether a round trip fails, a log does
\* not decode or the callback raises.
C15_OnlyStartAndStopSetTheFlag ==
  [][/\ running' # running => (StartReturn \/ StopCall \/ UninstallCall)
     /\ \A w \in Workers : WorkerStep(w) => running' = running]_vars

\* C15 witness: the worker of a running filter has seen its callback raise
\* and then a round trip fail, and the filter is still running.
C15_Witness ==
  /\ running
  /\ worker # None
  /\ workers[worker].pc = "errsleep"
  /\ \E i \in 1..Len(calls) : calls[i].outcome = "raised"
  /\ After("start")

\* The callback invocation a per-log outcome stands for, if any.
Invoked(o) ==
  IF o.status = "call" THEN <<[cls |-> o.cls, tx_hash |-> o.tx_hash]>>
  ELSE <<>>

\* C16: the blocking and the cooperative per-log paths agree: for every log
\* a poll of the filter returned, both invoke the callback or neither does,
\* and with the same event and transaction hash.
C16_BothVariantsDispatchAlike ==
  \A w \in Workers :
     \A k \in 1..Len(workers[w].got) :
        Invoked(ProcessEvent(event_type, workers[w].got[k]))
          = Invoked(ProcessLog(workers[w].got[k]))

\* C17: the callback is never invoked for a log that decodes to no event.
C17_NoCallbackWithoutEvent ==
  \A i \in 1..Len(calls) : calls[i].cls # "None"

\* C18: against a node that fills its pages and returns a cursor exactly
\* when more entities remain, every call of __next__ yields the next entity
\* or ends the iteration; the entities come once each, in page order and in
\* within-page order; and when the iteration ends all n entities have been
\* yielded, with ceil(n / limit) page fetches when there is an entity at all.
C18_DrainYieldsEveryEntityOnce ==
  (drain.honest /\ drain.last # "raised")
  => /\ drain.last \in {"none", "yield", "StopIteration"}
     /\ \A i \in 1..Len(drain.yielded) : drain.yielded[i] = i
     /\ drain.last = "StopIteration"
        => /\ Len(drain.yielded) = dataset.n
           /\ dataset.n > 0
              => Len(drain.fetches)
                   = (dataset.n + dataset.limit - 1) \div dataset.limit

\* C20: a call of __next__ that finds the current page used up fetches the
\* next page when the page carried a cursor and only then; without a cursor
\* it ends the iteration without a fetch; and when the page fetched is
\* empty it ends the iteration, whether or not that page carries a cursor.
C20_FetchOnlyWithCursor ==
  [][(/\ NextCall
      /\ iterator.current_result # NoResult
      /\ iterator.current_index >= Len(iterator.current_result.entities))
     => LET fetched == Len(drain'.fetches) > Len(drain.fetches)
            more == has_more(iterator.current_result) /\ ~iterator.exhausted
        IN  /\ fetched <=> more
            /\ ~more => drain'.last = "StopIteration"
            /\ (fetched /\ iterator'.current_result.entities = <<>>)
               => drain'.last = "StopIteration"]_vars

\* C21: once __next__ has raised StopIteration, every later call raises it
\* again: it yields no entity and fetches no page.
C21_ExhaustedStaysExhausted ==
  [][(NextCall /\ drain.stops > 0)
       => /\ drain'.last = "StopIteration"
          /\ drain'.yielded = drain.yielded
          /\ drain'.fetches = drain.fetches
          /\ iterator' = iterator]_vars

\* C21 witness: an iterator that had yielded its entities has signalled
\* exhaustion twice.
C21_Witness ==
  /\ drain.stops = 2
  /\ drain.yielded # <<>>
  /\ drain.last = "StopIteration"

\* ------------------------------------------------------- claims of the codec
RECURSIVE from_big_endian(_)
\* The integer of big-endian bytes.
from_big_endian(b) ==
  IF b = <<>> THEN 0
  ELSE 256 * from_big_endian(SubSeq(b, 1, Len(b) - 1)) + b[Len(b)]

RECURSIVE RlpItems(_)
\* The RLP items a byte string is the concatenation of: a byte string
\* ("bytes") or the list of the items of its body ("list").
RlpItems(b) ==
  IF b = <<>> THEN <<>>
  ELSE LET h == b[1]
           long == IF h < 192 THEN h - 183 ELSE h - 247
           off == IF h < 128 THEN 0 ELSE IF long > 0 THEN 1 + long ELSE 1
           len == IF h < 128 THEN 1
                  ELSE IF long > 0 THEN from_big_endian(SubSeq(b, 2, 1 + long))
                  ELSE IF h < 192 THEN h - 128 ELSE h - 192
           body == SubSeq(b, off + 1, off + len)
           item == IF h < 192 THEN [t |-> "bytes", v |-> body]
                   ELSE [t |-> "list", v |-> RlpItems(body)]
       IN  <<item>> \o RlpItems(SubSeq(b, off + len + 1, Len(b)))

\* rlp.decode of the encoding of one item.
RlpDecode(b) == RlpItems(b)[1]

RECURSIVE Wire(_)
\* What a decoder reads where obj was encoded.
Wire(obj) ==
  CASE obj.t = "int" -> [t |-> "bytes", v |-> int_to_big_endian(obj.v)]
    [] obj.t = "str" -> [t |-> "bytes", v |-> utf8(obj.v)]
    [] obj.t = "bytes" -> [t |-> "bytes", v |-> obj.v]
    [] OTHER -> [t |-> "list", v |-> [k \in 1..Len(obj.v) |-> Wire(obj.v[k])]]

\* The batch has been constructed and encoded into bytes.
Encoded ==
  /\ given.fn = "Operations"
  /\ Len(done) = 2
  /\ done[2].status = "ok"

\* The operations a caller passed in one list.
Passed(arg) == IF arg.t = "None" THEN <<>> ELSE arg.v

\* C22: Operations(...) raises exactly when each of the five lists is empty or
\* absent, a batch that is constructed holds the operations passed, and the
\* encoder is never handed a batch without operations.
C22_EmptyBatchRejected ==
  (given.fn = "Operations" /\ Len(done) >= 1) =>
    LET total == Len(Passed(given.creates)) + Len(Passed(given.updates))
                 + Len(Passed(given.deletes)) + Len(Passed(given.extensions))
                 + Len(Passed(given.change_owners))
    IN  /\ (done[1].status = "raise") <=> (total = 0)
        /\ done[1].status = "raise" => done[1].exc = "ValueError"
        /\ done[1].status = "ok" =>
             /\ done[1].value.creates = Passed(given.creates)
             /\ done[1].value.updates = Passed(given.updates)
             /\ done[1].value.deletes = Passed(given.deletes)
             /\ done[1].value.extensions = Passed(given.extensions)
             /\ done[1].value.change_owners = Passed(given.change_owners)
        /\ Len(done) = 2 => total > 0
C22_Witness ==
  /\ given.fn = "Operations"
  /\ given.creates = PyNone
  /\ given.updates = PyList(<<>>)
  /\ given.deletes = PyNone
  /\ given.extensions = PyList(<<>>)
  /\ given.change_owners = PyNone
  /\ Len(done) = 1
  /\ done[1].status = "raise"

\* The fields of the k-th update of the encoded batch, as decoded.
UpdateFields(k) == RlpDecode(done[2].value).v[2].v[k]

\* What the fields of an update are expected to hold, by name.
UpdateWire(element) ==
  LET split == split_annotations(element.annotations).value
  IN  [entity_key |-> [t |-> "bytes", v |-> entity_key_to_bytes(element.entity_key).value],
       btl |-> Wire(PyInt(element.btl)),
       content_type |-> Wire(PyStr(element.content_type)),
       payload |-> Wire(PyBytes(element.payload)),
       strings |-> Wire(PyList(split.string_annotations)),
       numbers |-> Wire(PyList(split.numeric_annotations))]

\* C23 as amended: each update is encoded as the six-field list
\* [entity key bytes, content type, blocks-to-live, payload, string
\* attributes, numeric attributes], in this order.
C23_UpdateFieldOrder ==
  Encoded =>
    \A k \in 1..Len(done[1].value.updates) :
      LET w == UpdateWire(done[1].value.updates[k])
      IN  /\ UpdateFields(k).t = "list"
          /\ UpdateFields(k).v =
               <<w.entity_key, w.content_type, w.btl, w.payload, w.strings,
                 w.numbers>>
C23_Witness ==
  /\ Encoded
  /\ done[1].value.updates = <<UpdateOp(to_entity_key(1), <<120>>, text_plain, Mixed, 20)>>
  /\ UpdateFields(1).v[2].v = utf8(text_plain)
  /\ UpdateFields(1).v[3].v = <<20>>

\* C23 as stated: each update is encoded as [entity key bytes,
\* blocks-to-live, content type, payload, string attributes, numeric
\* attributes].
C23_AsStated ==
  Encoded =>
    \A k \in 1..Len(done[1].value.updates) :
      LET w == UpdateWire(done[1].value.updates[k])
      IN  /\ UpdateFields(k).t = "list"
          /\ UpdateFields(k).v =
               <<w.entity_key, w.btl, w.content_type, w.payload, w.strings,
                 w.numbers>>

\* C24: the encoding is a list of exactly five lists, the creates, updates,
\* deletes, extensions and changes of owner in this order; each holds one
\* element per operation of its kind, in the order of the batch, and is
\* empty where the batch has none.
C24_FiveSequencesInOrder ==
  Encoded =>
    LET decoded == RlpDecode(done[2].value)
        tx == done[1].value
    IN  /\ RlpItems(done[2].value) = <<decoded>>
        /\ decoded.t = "list"
        /\ Len(decoded.v) = 5
        /\ \A i \in 1..5 : decoded.v[i].t = "list"
        /\ decoded.v[1].v =
             [k \in 1..Len(tx.creates) |-> Wire(CreateElement(tx.creates[k]).value)]
        /\ decoded.v[2].v =
             [k \in 1..Len(tx.updates) |-> Wire(UpdateElement(tx.updates[k]).value)]
        /\ decoded.v[3].v =
             [k \in 1..Len(tx.deletes) |-> Wire(DeleteElement(tx.deletes[k]).value)]
        /\ decoded.v[4].v =
             [k \in 1..Len(tx.extensions) |->
                Wire(ExtendElement(tx.extensions[k]).value)]
        /\ decoded.v[5].v =
             [k \in 1..Len(tx.change_owners) |->
                Wire(ChangeOwnerElement(tx.change_owners[k]).value)]
\* One create with payload b"x", content type "text/plain", no attributes
\* and 10 blocks to live: [[[10, "text/plain", b"x", [], []]], [], [], [], []].
C24_Witness ==
  /\ Encoded
  /\ given.creates = PyList(<<CreateOp(<<120>>, text_plain, <<>>, 10)>>)
  /\ given.updates = PyNone
  /\ given.deletes = PyList(<<>>)
  /\ RlpDecode(done[2].value).v =
       <<[t |-> "list",
          v |-> <<[t |-> "list",
                   v |-> <<[t |-> "bytes", v |-> <<10>>],
                           [t |-> "bytes", v |-> utf8(text_plain)],
                           [t |-> "bytes", v |-> <<120>>],
                           [t |-> "list", v |-> <<>>],
                           [t |-> "list", v |-> <<>>]>>]>>],
         [t |-> "list", v |-> <<>>], [t |-> "list", v |-> <<>>],
         [t |-> "list", v |-> <<>>], [t |-> "list", v |-> <<>>]>>

\* The negative numbers among the attributes a, in insertion order.
Negatives(a) == SelectSeq(a, LAMBDA e : e.value.t = "int" /\ e.value.v < 0)

\* The attribute maps of the creates of a batch, then of its updates, that
\* hold a negative number.
Offending(tx) ==
  SelectSeq([k \in 1..Len(tx.creates) |-> tx.creates[k].annotations]
              \o [k \in 1..Len(tx.updates) |-> tx.updates[k].annotations],
            LAMBDA a : Negatives(a) # <<>>)

\* C25: encoding a batch in which a create or an update has a negative
\* attribute value raises the attribute-value error for the first such
\* value and returns no bytes, whatever precedes the offending operation.
C25_NegativeAttributeAborts ==
  (/\ given.fn = "Operations"
   /\ Len(done) = 2
   /\ Offending(done[1].value) # <<>>) =>
    /\ done[2].status = "raise"
    /\ done[2].exc = "AnnotationException"
    /\ done[2].value = Head(Negatives(Head(Offending(done[1].value))))
C25_Witness ==
  /\ given.fn = "Operations"
  /\ Len(done) = 2
  /\ given.creates = PyList(<<CreateOp(<<120>>, text_plain, <<>>, 10),
                              CreateOp(<<120>>, text_plain, NegativeInCreate, 10)>>)
  /\ given.updates =
       PyList(<<UpdateOp(to_entity_key(1), <<120>>, text_plain, NegativeInUpdate, 20)>>)
  /\ done[2] = Raised("AnnotationException", Entry(<<"k">>, PyInt(-1)))

SameMap(a, b) == {a[i] : i \in 1..Len(a)} = {b[i] : i \in 1..Len(b)}

\* The attributes a without the keys that start with the reserved "$".
Unreserved(a) == SelectSeq(a, LAMBDA e : ~(e.key # <<>> /\ e.key[1] = "$"))

Buckets == {"creates", "updates", "extensions", "deletes", "change_owners"}

\* The bucket of the receipt that holds the events of a class, "none" for a
\* class the receipt has no bucket for.
VariantBucket(cls) ==
  CASE cls = "CreateEvent" -> "creates"
    [] cls = "UpdateEvent" -> "updates"
    [] cls = "ExtendEvent" -> "extensions"
    [] cls = "DeleteEvent" -> "deletes"
    [] cls = "ChangeOwnerEvent" -> "change_owners"
    [] OTHER -> "none"

\* The typed event of an event name.
EventClassOf(event_name) ==
  CASE event_name = CREATED_EVENT -> "CreateEvent"
    [] event_name = UPDATED_EVENT -> "UpdateEvent"
    [] event_name = EXPIRED_EVENT -> "ExpiryEvent"
    [] event_name = DELETED_EVENT -> "DeleteEvent"
    [] event_name = EXTENDED_EVENT -> "ExtendEvent"
    [] event_name = OWNER_CHANGED_EVENT -> "ChangeOwnerEvent"
    [] OTHER -> "None"

\* to_event returns an event for the log.
Decodes(log) ==
  /\ get_event_data(log).status = "ok"
  /\ ToEvent(log).status = "ok"
  /\ ToEvent(log).cls # "None"

\* The events to_event returns for the logs, in the order of the logs.
DecodedEvents(logs) ==
  LET decoded == SelectSeq(logs, Decodes)
  IN  [k \in 1..Len(decoded) |->
         [cls |-> ToEvent(decoded[k]).cls,
          entity_key |-> to_entity_key(decoded[k].entityKey)]]

\* to_receipt has returned a receipt for the logs given.
ReceiptBuilt ==
  /\ given.fn = "to_receipt"
  /\ Len(done) = 1
  /\ done[1].status = "ok"

\* C26: the receipt holds each decoded event exactly once, in the bucket of
\* its variant, and the events of a bucket are in the order of their logs.
C26_EachDecodedEventOnce ==
  ReceiptBuilt =>
    LET events == DecodedEvents(given.tx_receipt.logs)
    IN  /\ \A k \in 1..Len(events) : VariantBucket(events[k].cls) \in Buckets
        /\ \A b \in Buckets :
             done[1].value[b] =
               SelectSeq(events, LAMBDA e : VariantBucket(e.cls) = b)

\* The log is one that a receipt skips: no topic, a topic of no event of the
\* contract, a legacy event, or data that fall short of the inputs.
Skipped(log) ==
  \/ ~log.topics
  \/ log.event \notin EventNames
  \/ log.shape # "abi"

\* The receipt of a transaction that holds the log alone.
Alone(log) ==
  to_receipt(given.tx_hash,
             [blockNumber |-> given.tx_receipt.blockNumber, logs |-> <<log>>])

\* C27: with a block number, to_receipt returns whatever the logs are; a
\* log without a known topic, of a legacy event or short of a field adds
\* nothing, and each other log adds to the receipt what it adds when it is
\* the only log of the transaction: a created, updated, deleted or
\* owner-changed log its event.
C27_BadLogsAreSkipped ==
  (/\ given.fn = "to_receipt"
   /\ Len(done) = 1
   /\ given.tx_receipt.blockNumber.t # "None") =>
    LET logs == given.tx_receipt.logs
    IN  /\ done[1].status = "ok"
        /\ \A b \in Buckets :
             /\ done[1].value[b] =
                  Concat([k \in 1..Len(logs) |-> Alone(logs[k]).value[b]])
             /\ \A k \in 1..Len(logs) :
                  /\ Skipped(logs[k]) => Alone(logs[k]).value[b] = <<>>
                  /\ (/\ ~Skipped(logs[k])
                      /\ logs[k].event \in {CREATED_EVENT, UPDATED_EVENT,
                                            DELETED_EVENT, OWNER_CHANGED_EVENT}
                      /\ b = VariantBucket(EventClassOf(logs[k].event))) =>
                       Alone(logs[k]).value[b] =
                         <<[cls |-> EventClassOf(logs[k].event),
                            entity_key |-> to_entity_key(k)]>>
C27_Witness ==
  /\ ReceiptBuilt
  /\ Len(given.tx_receipt.logs) = 2
  /\ given.tx_receipt.logs[1].event = "Transfer"
  /\ given.tx_receipt.logs[2].event = CREATED_EVENT
  /\ ~Skipped(given.tx_receipt.logs[2])
  /\ done[1].value.creates =
       <<[cls |-> "CreateEvent", entity_key |-> to_entity_key(2)]>>

\* C28: a log that fits the ABI entry of a non-legacy event decodes into the
\* typed event of that event, each field read from a declared input.
C28_AbiLogsDecode ==
  (/\ given.fn = "to_event"
   /\ given.log.event \in EventNames
   /\ Len(done) = 1) =>
    /\ done[1].status = "ok"
    /\ done[1].value.cls = EventClassOf(given.log.event)

\* C31: check_entity_key raises EntityKeyException for every value that is
\* no string, has not the length of a key or is not hexadecimal after the
\* prefix, and it accepts every key to_entity_key returns.
C31_CheckEntityKey ==
  (given.fn = "check_entity_key" /\ Len(done) = 1) =>
    /\ (\/ given.value.t # "str"
        \/ Len(given.value.v) # 2 + 2 * KeyBytes
        \/ \E i \in 3..Len(given.value.v) : ~IsHexDigit(given.value.v[i])) =>
         (done[1].status = "raise" /\ done[1].exc = "EntityKeyException")
    /\ given.n >= 0 => done[1].status = "ok"

\* The poll workers (threads, or tasks) that have been started and have not
\* ended.
AliveWorkers == {w \in Workers : Alive(w)}

\* C32: at any moment at most one poll thread of a blocking filter is alive,
\* whatever start(), stop() and uninstall() calls were made, a start() after
\* a stop() whose join timed out included.
C32_OneThreadAlive ==
  variant = "blocking" => Cardinality(AliveWorkers) <= 1

\* C33: at any moment at most one poll task of a cooperative filter is
\* alive, however the start() and stop() calls that coroutines await at the
\* same time interleave.
C33_OneTaskAlive ==
  variant = "coop" => Cardinality(AliveWorkers) <= 1

\* C34: over the whole life of a filter, stop()/start() cycles included and
\* whatever from_block is, no log is dispatched to the callback more than
\* once: no two invocations of the callback are for the same log.
C34_NoLogDispatchedTwice ==
  \A i, j \in 1..Len(calls) : i < j => calls[i].tx_hash # calls[j].tx_hash

\* start() of the single filter raises in this step: for its event type,
\* or in create_filter.
StartRaises ==
  \/ StartFail
  \/ StartCall /\ caller' = Returned("start_raised")

C36_CleanupSurvivesARaise ==
  [][(client.pc = "cleanup" /\ client'.pc = "idle")
       => /\ active_filters' = <<>>
          /\ \A k \in 1..Len(active_filters) :
               LET f == filters'[active_filters[k]]
               IN  /\ ~f.running
                   /\ f.failed \/ (f.uninstalled /\ f.filter = None)]_vars

\* C36 witness: cleanup_filters() has returned; the uninstall() of the first
\* filter raised and the second filter has been uninstalled.
C36_Witness ==
  /\ client = ClientIdle("cleanup")
  /\ Len(filters) = 2
  /\ active_filters = <<>>
  /\ filters[1].failed /\ filters[1].filter # None
  /\ filters[2].uninstalled /\ filters[2].filter = None /\ ~filters[2].failed

\* C37: every filter active_filters returns is active: a filter that has
\* been uninstalled by its own uninstall() is not listed any more.
C37_ListedFiltersAreActive ==
  client.pc = "idle"
  => \A k \in 1..Len(active_filters) : ~filters[active_filters[k]].uninstalled

\* The call of __next__ made in this step ends in the exception of its
\* fetch: of the first page, or of the statement that fetches the
\* continuation page of the page at hand.
FetchRaises ==
  \/ drain'.last = "raised"
  \/ drain'.last = "AttributeError" /\ iterator.current_result # NoResult

\* C38: when a page fetch raises, the exception leaves __next__ and the
\* iterator stands where it stood: nothing is yielded or recorded as
\* fetched, so that no entity is skipped or yielded twice and the next call
\* makes the same fetch again.
C38_FailedFetchKeepsPosition ==
  [][FetchRaises
       => /\ iterator' = iterator
          /\ drain'.yielded = drain.yielded
          /\ drain'.fetches = drain.fetches]_vars

\* C38 witness: the fetch of the first page has raised on an iterator over
\* a query that matches entities.
C38_Witness ==
  /\ drain.last = "raised"
  /\ dataset.n > 0
  /\ iterator.current_result = NoResult
  /\ drain.yielded = <<>>

\* What start() and stop() assign, and what they create.
lifecycle == <<running, filter, worker, workers, starts, cursors>>

\* C39: redundant calls do nothing: start() on a running filter returns
\* without a new log filter or a second poll worker, a log filter and a
\* worker are only ever created for a filter that is not running, and
\* stop() on a filter that is not running changes nothing.
C39_RedundantCallsAreNoOps ==
  [][/\ (StartCall /\ running)
        => caller' = Returned("start") /\ lifecycle' = lifecycle
     /\ (starts' # starts \/ worker' \notin {worker, None}) => ~running
     /\ (StopCall /\ ~running)
        => caller' = Returned("stop") /\ lifecycle' = lifecycle]_vars

\* C39 witness: stop() has returned on a filter that was never started,
\* after a log was emitted: nothing was created and nothing is running.
C39_Witness ==
  /\ caller = Returned("stop")
  /\ starts = 0
  /\ ~running /\ worker = None /\ filter = None
  /\ chain # <<>>
====
